---------------------------- MODULE Spec2Model ----------------------------
(***************************************************************************)
(* Cryer: session orchestration, throttle and cooldown gates, the schedule *)
(* runtime and the removal monitor, modelled from server.js                *)
(* (src/unnamed/part_002), lib/scheduler.js (src/unnamed/part_001, lines   *)
(* 1-90), lib/store.js and lib/reddit.js.                                  *)
(*                                                                         *)
(* Handlers are async functions: every action below is the code that runs  *)
(* between two awaits, so that a handler is a chain of actions and other   *)
(* handlers can run while it is suspended.                                 *)
(***************************************************************************)
EXTENDS Integers, Sequences, FiniteSets, TLC

(***************************************************************************)
(* Time.  Date.now() is the variable now, in milliseconds.  Events happen  *)
(* at instants of a grid chosen to hit the windows' boundaries exactly:    *)
(* each day of Days, at the offsets of Offsets.                            *)
(***************************************************************************)
DAY_MS == 24 * 3600000
HOUR_MS == 3600000
SERVER_ROLLING_WINDOW_MS == 24 * 3600 * 1000
DEFAULT_RETRY_DELAY_MS == 300000
MONITOR_TTL_DAYS == 7
SLEEP_AFTER_ERROR_MS == 1000

Epoch == 10 * DAY_MS
Days == 0 .. 2
Offsets == {0, 1, DEFAULT_RETRY_DELAY_MS}
Instants == {Epoch + d * DAY_MS + o : d \in Days, o \in Offsets}

(***************************************************************************)
(* Configuration: the tenants, their defaults and their target lists       *)
(* (subreddits.json), which the orchestrator only reads.  A text is a      *)
(* sequence of words, so that String.includes and the invite pattern are   *)
(* decided on its words; "" and << >> are the empty (falsy) values.        *)
(***************************************************************************)
NULL == "null"
TenantKeys == {"alpha", "beta", "gamma"}
AllKeys == TenantKeys \cup {"ghost"}
Invite == "discord.gg/abc"
InvitePattern == {"discord.gg/abc", "discord.com/invite/abc"}

\* server.json: defaults{title, invite, body}
Defaults(serverKey) ==
    IF serverKey = "alpha"
    THEN [title |-> "Join us", invite |-> Invite, body |-> << >>]
    ELSE [title |-> "", invite |-> "", body |-> << >>]

\* A JSON value of rules.cooldownDays: a number, absent, or not a number.
Num(n) == [kind |-> "num", val |-> n]
Unset == [kind |-> "unset", val |-> 0]
NotANumber == [kind |-> "str", val |-> 0]

\* subreddits.json of each tenant, in stored order
Subs(serverKey) ==
    CASE serverKey = "alpha" ->
           << [subreddit |-> "r1", key |-> "",
               rules |-> [cooldownDays |-> Num(2), requirePermanentInvite |-> "unset"],
               post |-> [type |-> "self", title |-> "", body |-> <<"hello">>, url |-> ""]],
              [subreddit |-> "r2", key |-> "k2",
               rules |-> [cooldownDays |-> NotANumber, requirePermanentInvite |-> "unset"],
               post |-> [type |-> "link", title |-> "T", body |-> << >>, url |-> "example.com/x"]],
              [subreddit |-> "r3", key |-> "k3",
               rules |-> [cooldownDays |-> Num(0), requirePermanentInvite |-> "true"],
               post |-> [type |-> "link", title |-> "T", body |-> << >>, url |-> ""]],
              [subreddit |-> "r2", key |-> "",
               rules |-> [cooldownDays |-> Num(1), requirePermanentInvite |-> "false"],
               post |-> [type |-> "link", title |-> "T", body |-> << >>, url |-> "example.com/x"]] >>
      [] serverKey = "beta" ->
           << [subreddit |-> "r1", key |-> "",
               rules |-> [cooldownDays |-> Unset, requirePermanentInvite |-> "false"],
               post |-> [type |-> "self", title |-> "T", body |-> <<"hi">>, url |-> ""]] >>
      [] serverKey = "gamma" ->
           << [subreddit |-> "r1", key |-> "",
               rules |-> [cooldownDays |-> Num(1), requirePermanentInvite |-> "false"],
               post |-> [type |-> "self", title |-> "", body |-> <<"hi">>, url |-> ""]],
              [subreddit |-> "r2", key |-> "",
               rules |-> [cooldownDays |-> Num(1), requirePermanentInvite |-> "false"],
               post |-> [type |-> "self", title |-> "T", body |-> << >>, url |-> ""]],
              [subreddit |-> "r3", key |-> "",
               rules |-> [cooldownDays |-> Num(1), requirePermanentInvite |-> "unset"],
               post |-> [type |-> "self", title |-> "T", body |-> <<"hi">>, url |-> ""]],
              [subreddit |-> "r2", key |-> "k2",
               rules |-> [cooldownDays |-> Num(1), requirePermanentInvite |-> "false"],
               post |-> [type |-> "link", title |-> "T", body |-> << >>, url |-> ""]],
              [subreddit |-> "r3", key |-> "k3",
               rules |-> [cooldownDays |-> Num(1), requirePermanentInvite |-> "false"],
               post |-> [type |-> "image", title |-> "T", body |-> << >>, url |-> "example.com/x"]] >>
      [] OTHER -> << >>

\* entry.key || subreddit
TargetKey(entry) == IF entry.key # "" THEN entry.key ELSE entry.subreddit
\* the keys a cooldowns.json can hold
TargetKeys == {"r1", "r2", "r3", "k2", "k3"}

\* process.env.CRYER_SHARED_KEY || '', and the X-Cryer-Key header of a request
\* (NoHeader: the request has none).  Configured: the key is set and the
\* client sends it.
SharedKey == "secret"
NoHeader == "(none)"
Configured == [SHARED_KEY |-> SharedKey, header |-> SharedKey]

VARIABLES
    now,        \* Date.now(), ms
    dirs,       \* the tenants whose data directory exists (ensureServerScaffold)
    lastAdAt,   \* server.json lastAdAt of each tenant key, 0 = never
    cooldowns,  \* cooldowns.json of each tenant: target key -> ms, 0 = no entry
    posted,     \* posted.json of each tenant: the PostedRecords, in order
    schedules,  \* schedules.json: the Schedule entries, in order
    schedSeq,   \* number of Schedule ids handed out (ids are fresh)
    extSeq,     \* number of submissions the platform has accepted (ids are fresh)
    sess,       \* the advertise handlers: session slot -> local state
    tick,       \* the schedule ticks: tick slot -> local state
    servers,    \* servers.json: the registered tenant keys, in order
    subs,       \* subreddits.json of the tenant whose target list is edited
    http,       \* SHARED_KEY of the process, and the X-Cryer-Key header the client sends
    mon,        \* the removal monitor ticks: monitor slot -> local state
    notes       \* the notifications handed to notifySquire in the latest step

vars == <<now, dirs, lastAdAt, cooldowns, posted, schedules, schedSeq, extSeq, sess,
          tick, servers, subs, http, mon, notes>>

\* a step that calls notifySquire for nothing
NoNotification == notes' = << >>

\* what no step of an advertise handler changes; the start of a handler is
\* also a step of its caller
startFrame == <<now, dirs, servers, subs, http, mon>>
sessionFrame == <<now, dirs, servers, subs, http, mon, tick>>

SessIds == {"s1", "s2"}
TickIds == {"t1", "t2"}
\* the monitor ticks that can be in flight at once; MonIds is the tick of the
\* explorations in which a tick ends before the next one starts
MonSlots == {"m1", "m2"}
MonIds == {"m1"}

(***************************************************************************)
(* Gates (server.js, POST /v1/advertise)                                   *)
(***************************************************************************)
\* mutation: the window's last millisecond is counted in (<= for <)
ThrottledOffByOne(last, nowMs) ==
    last # 0 /\ (nowMs - last) <= SERVER_ROLLING_WINDOW_MS

\* lastAdAt && (nowMs - lastAdAt) < SERVER_ROLLING_WINDOW_MS
Throttled(last, nowMs) ==
    last # 0 /\ (nowMs - last) < SERVER_ROLLING_WINDOW_MS

\* mutation: rules.cooldownDays || 1, which takes 0 for absent
CadenceDaysOrOne(rules) ==
    IF rules.cooldownDays.kind = "num" /\ rules.cooldownDays.val # 0
    THEN rules.cooldownDays.val ELSE 1

\* Number.isFinite(rules.cooldownDays) ? rules.cooldownDays : 1
CadenceDays(rules) ==
    IF rules.cooldownDays.kind = "num" THEN rules.cooldownDays.val ELSE 1

\* waitMs = days * 24 * 3600000 - (now - last)
WaitMs(entry, last, nowMs) ==
    CadenceDays(entry.rules) * 24 * 3600000 - (nowMs - last)

\* Math.ceil(waitMs / 3600000), for waitMs > 0
CeilHours(waitMs) == (waitMs + HOUR_MS - 1) \div HOUR_MS

(***************************************************************************)
(* Content: defaults and validation                                        *)
(***************************************************************************)
Includes(text, word) == \E i \in 1 .. Len(text) : text[i] = word
MatchesInvite(text) == \E i \in 1 .. Len(text) : text[i] \in InvitePattern

withServerDefaults(serverKey, post) ==
    LET d == Defaults(serverKey)
        o1 == IF post.title = "" /\ d.title # "" THEN [post EXCEPT !.title = d.title] ELSE post
        b1 == IF o1.body = << >> /\ d.body # << >> THEN d.body ELSE o1.body
        b2 == IF d.invite # "" /\ b1 # << >> /\ ~Includes(b1, d.invite)
              THEN Append(b1, d.invite) ELSE b1
        b3 == IF d.invite # "" /\ b2 = << >> THEN <<d.invite>> ELSE b2
    IN  IF o1.type = "self" THEN [o1 EXCEPT !.body = b3]
        ELSE IF o1.type = "link"
             THEN IF o1.url = "" /\ d.invite # "" THEN [o1 EXCEPT !.url = d.invite] ELSE o1
             ELSE o1

\* mutation: a post of another type than self or link passes
ValidationErrorsAnyType(post, rules) ==
    LET inviteRequired == rules.requirePermanentInvite # "false"
        e1 == IF post.title = "" THEN <<"title is required">> ELSE << >>
        e2 == IF post.type = "self"
              THEN (IF post.body = << >> THEN <<"body is required for self posts">> ELSE << >>)
                   \o (IF inviteRequired /\ post.body # << >> /\ ~MatchesInvite(post.body)
                       THEN <<"permanent invite link required in body">> ELSE << >>)
              ELSE IF post.type = "link"
                   THEN (IF post.url = "" THEN <<"url is required for link posts">> ELSE << >>)
                        \o (IF inviteRequired /\ post.url # "" /\ post.url \notin InvitePattern
                            THEN <<"permanent invite link required as link URL">> ELSE << >>)
                   ELSE << >>
    IN  e1 \o e2

\* the errors list of the validations, in the order they are pushed
ValidationErrors(post, rules) ==
    LET inviteRequired == rules.requirePermanentInvite # "false"
        e1 == IF post.title = "" THEN <<"title is required">> ELSE << >>
        e2 == IF post.type = "self"
              THEN (IF post.body = << >> THEN <<"body is required for self posts">> ELSE << >>)
                   \o (IF inviteRequired /\ post.body # << >> /\ ~MatchesInvite(post.body)
                       THEN <<"permanent invite link required in body">> ELSE << >>)
              ELSE IF post.type = "link"
                   THEN (IF post.url = "" THEN <<"url is required for link posts">> ELSE << >>)
                        \o (IF inviteRequired /\ post.url # "" /\ post.url \notin InvitePattern
                            THEN <<"permanent invite link required as link URL">> ELSE << >>)
                   ELSE <<"unsupported post type">>
    IN  e1 \o e2

(***************************************************************************)
(* lib/store.js                                                            *)
(***************************************************************************)
\* mutation: the reason of a new entry is always manual
NewScheduleManual(serverKey, whenMs, reason) ==
    [id |-> schedSeq + 1, serverKey |-> serverKey, whenMs |-> whenMs,
     reason |-> "manual", createdMs |-> now,
     attemptCount |-> 0, lastAttemptMs |-> 0, lastError |-> ""]

\* addSchedule: a fresh id, the entry pushed to the end of the list
NewSchedule(serverKey, whenMs, reason) ==
    [id |-> schedSeq + 1, serverKey |-> serverKey, whenMs |-> whenMs,
     reason |-> reason, createdMs |-> now,
     attemptCount |-> 0, lastAttemptMs |-> 0, lastError |-> ""]

addSchedule(list, serverKey, whenMs, reason) ==
    Append(list, NewSchedule(serverKey, whenMs, reason))

\* removeSchedule: listSchedules().filter(s => s.id !== id)
removeSchedule(list, id) == SelectSeq(list, LAMBDA e : e.id # id)

\* mutation: the updates are pushed as a new entry when no entry has the id
updateScheduleOrPush(list, id, whenMs, attemptCount, lastAttemptMs, lastError) ==
    LET hits == {i \in 1 .. Len(list) : list[i].id = id}
    IN  IF hits = {}
        THEN Append(list, [id |-> id, serverKey |-> "", whenMs |-> whenMs, reason |-> "",
                           createdMs |-> 0, attemptCount |-> attemptCount,
                           lastAttemptMs |-> lastAttemptMs, lastError |-> lastError])
        ELSE LET ix == CHOOSE i \in hits : \A j \in hits : i <= j
             IN  [list EXCEPT ![ix] = [@ EXCEPT !.whenMs = whenMs,
                                                !.attemptCount = attemptCount,
                                                !.lastAttemptMs = lastAttemptMs,
                                                !.lastError = lastError]]

\* updateSchedule: the first entry with that id is merged with the updates;
\* the list is left alone (null is returned) when there is none
updateSchedule(list, id, whenMs, attemptCount, lastAttemptMs, lastError) ==
    LET hits == {i \in 1 .. Len(list) : list[i].id = id}
    IN  IF hits = {}
        THEN list
        ELSE LET ix == CHOOSE i \in hits : \A j \in hits : i <= j
             IN  [list EXCEPT ![ix] = [@ EXCEPT !.whenMs = whenMs,
                                                !.attemptCount = attemptCount,
                                                !.lastAttemptMs = lastAttemptMs,
                                                !.lastError = lastError]]

\* appendPostedRecord: list.push(record)
appendPostedRecord(list, record) == Append(list, record)

\* updateServerLastAdAt: cfg.lastAdAt = whenMs
updateServerLastAdAt(cfg, serverKey, whenMs) == [cfg EXCEPT ![serverKey] = whenMs]

(***************************************************************************)
(* POST /v1/advertise: the Session Orchestrator.                           *)
(* pc: idle | token (await getToken) | submit (await submitPost, then      *)
(* rateLimitPause) | resolve (await resolveRecentSubmission) | sleep       *)
(* (await sleep(1000)) | done (responded, or aborted by a rejection).      *)
(* published is history: the targets whose submitPost call succeeded.      *)
(***************************************************************************)
NoCooldowns == [k \in TargetKeys |-> 0]

IdleSession ==
    [pc |-> "idle", serverKey |-> NULL, dryRun |-> FALSE,
     caller |-> NULL, idx |-> 0, cooldowns |-> NoCooldowns, results |-> << >>,
     postedCount |-> 0, id |-> 0, permalink |-> FALSE,
     status |-> NULL, throttleUntil |-> 0, scheduled |-> 0,
     wakeAt |-> 0, extId |-> 0, published |-> {}]

\* mutation: without if (dryRun) { ... continue; }
GateOutcomeNoDryRun(st, entry, nowMs) ==
    LET post == withServerDefaults(st.serverKey, entry.post)
        last == st.cooldowns[TargetKey(entry)]
        waitMs == WaitMs(entry, last, nowMs)
        errors == ValidationErrors(post, entry.rules)
    IN  IF waitMs > 0
        THEN [subreddit |-> entry.subreddit, status |-> "skip_cooldown",
              inHours |-> CeilHours(waitMs)]
        ELSE IF errors # << >>
             THEN [subreddit |-> entry.subreddit, status |-> "invalid", errors |-> errors]
             ELSE [subreddit |-> entry.subreddit, status |-> "publish"]

\* the body of the for loop up to the publish call: the outcome of one target
\* that is decided without a network call, or "publish"
GateOutcome(st, entry, nowMs) ==
    LET post == withServerDefaults(st.serverKey, entry.post)
        last == st.cooldowns[TargetKey(entry)]
        waitMs == WaitMs(entry, last, nowMs)
        errors == ValidationErrors(post, entry.rules)
    IN  IF waitMs > 0
        THEN [subreddit |-> entry.subreddit, status |-> "skip_cooldown",
              inHours |-> CeilHours(waitMs)]
        ELSE IF errors # << >>
             THEN [subreddit |-> entry.subreddit, status |-> "invalid", errors |-> errors]
             ELSE IF st.dryRun
                  THEN [subreddit |-> entry.subreddit, status |-> "dry_run_ok", post |-> post]
                  ELSE [subreddit |-> entry.subreddit, status |-> "publish"]

\* for (const entry of subs): runs on from target st.idx until the next await
\* (pc = "submit") or the end of the list (pc = "finish")
RECURSIVE RunLoop(_, _)
RunLoop(st, nowMs) ==
    IF st.idx > Len(Subs(st.serverKey))
    THEN [st EXCEPT !.pc = "finish"]
    ELSE LET o == GateOutcome(st, Subs(st.serverKey)[st.idx], nowMs)
         IN  IF o.status = "publish"
             THEN [st EXCEPT !.pc = "submit", !.id = 0, !.permalink = FALSE]
             ELSE RunLoop([st EXCEPT !.results = Append(@, o), !.idx = @ + 1], nowMs)

\* if (!dryRun && postedCount > 0) updateServerLastAdAt(..., Date.now())
RecordsLastAdAt(st) == ~st.dryRun /\ st.postedCount > 0

\* what a call of notifySquire meets: no SQUIRE_NOTIFY_URL, a 2xx answer,
\* another answer, or a fetch that throws
Deliveries == {"unset", "accepted", "refused", "throws"}

\* notifySquire returns { ok: false, skipped: true }, { ok } or, from its
\* catch, { ok: false, error }; it never throws
notifySquire(delivery) ==
    CASE delivery = "unset" -> [ok |-> FALSE, skipped |-> TRUE, error |-> FALSE]
      [] delivery = "throws" -> [ok |-> FALSE, skipped |-> FALSE, error |-> TRUE]
      [] OTHER -> [ok |-> delivery = "accepted", skipped |-> FALSE, error |-> FALSE]

\* the statuses a result can carry
Statuses == {"skip_cooldown", "invalid", "dry_run_ok", "posted", "error"}

\* results.reduce((acc, r) => { acc[r.status] = (acc[r.status] || 0) + 1 }, {});
\* a status that no result carries has no key (0 here)
Counts(results) ==
    [status \in Statuses |->
        Cardinality({i \in 1 .. Len(results) : results[i].status = status})]

\* mutation: the details are not filtered
SessionCompletedAll(st) ==
    [type |-> "cryer.session.completed", serverKey |-> st.serverKey, dryRun |-> st.dryRun,
     counts |-> Counts(st.results), details |-> st.results]

\* notifySquire('cryer.session.completed', { serverKey, dryRun, counts,
\* details: results.filter(r => r.status !== 'posted') })
SessionCompleted(st) ==
    [type |-> "cryer.session.completed", serverKey |-> st.serverKey, dryRun |-> st.dryRun,
     counts |-> Counts(st.results),
     details |-> SelectSeq(st.results, LAMBDA r : r.status # "posted")]

\* mutation: the handler answers with what notifySquire returned
SessionAnswerChecked(st, delivery) ==
    LET sent == notifySquire(delivery)
    IN  [ok |-> sent.ok, results |-> IF sent.ok THEN st.results ELSE << >>]

\* try { ...; await notifySquire(...) } catch {}
\* return res.json({ ok: true, results }): what notifySquire returned is dropped
SessionAnswer(st, delivery) ==
    LET sent == notifySquire(delivery)
    IN  [ok |-> TRUE, results |-> st.results]

\* The handler runs on from st to its next await; at the end of the list it
\* records lastAdAt, sends the summary and responds { ok: true, results }.
Resume(s, st) ==
    LET r == RunLoop(st, now)
    IN  IF r.pc = "finish"
        THEN /\ sess' = [sess EXCEPT ![s] = [r EXCEPT !.pc = "done", !.status = "ok"]]
             /\ lastAdAt' = IF RecordsLastAdAt(r)
                            THEN updateServerLastAdAt(lastAdAt, r.serverKey, now)
                            ELSE lastAdAt
             /\ notes' = << SessionCompleted(r) >>
        ELSE /\ sess' = [sess EXCEPT ![s] = r]
             /\ UNCHANGED lastAdAt
             /\ NoNotification

\* mutation: the throttled answer is reported to Squire as well
ThrottleNoticeSent(serverKey) ==
    << [type |-> "cryer.session.throttled", serverKey |-> serverKey] >>

\* "Do not notify Squire here per requirements": the throttle branch returns
\* without a call of notifySquire
ThrottleNotice(serverKey) ==
    << >>

\* the handler from its start to its first await
AdvertiseStart(s, serverKey, dryRun, auto, caller) ==
    /\ sess[s].pc = "idle"
    /\ LET st == [IdleSession EXCEPT !.serverKey = serverKey, !.dryRun = dryRun,
                                     !.caller = caller]
       IN  IF Throttled(lastAdAt[serverKey], now)
           THEN LET throttleUntil == lastAdAt[serverKey] + SERVER_ROLLING_WINDOW_MS
                IN  /\ schedules' = IF auto
                                    THEN addSchedule(schedules, serverKey, throttleUntil, "throttled")
                                    ELSE schedules
                    /\ schedSeq' = IF auto THEN schedSeq + 1 ELSE schedSeq
                    /\ sess' = [sess EXCEPT ![s] =
                                  [st EXCEPT !.pc = "done", !.status = "throttled",
                                             !.throttleUntil = throttleUntil,
                                             !.scheduled = IF auto THEN schedSeq + 1 ELSE 0]]
                    /\ UNCHANGED <<lastAdAt, cooldowns, posted, extSeq>>
                    /\ notes' = ThrottleNotice(serverKey)
           ELSE IF serverKey \notin dirs
                THEN /\ sess' = [sess EXCEPT ![s] = [st EXCEPT !.pc = "done", !.status = "not_found"]]
                     /\ UNCHANGED <<lastAdAt, cooldowns, posted, schedules, schedSeq, extSeq>>
                     /\ NoNotification
                ELSE LET st1 == [st EXCEPT !.cooldowns = cooldowns[serverKey], !.idx = 1]
                     IN  /\ IF dryRun
                            THEN Resume(s, st1)
                            ELSE /\ sess' = [sess EXCEPT ![s] = [st1 EXCEPT !.pc = "token"]]
                                 /\ UNCHANGED lastAdAt
                                 /\ NoNotification
                         /\ UNCHANGED <<cooldowns, posted, schedules, schedSeq, extSeq>>
    /\ UNCHANGED startFrame

\* mutation: a rejected getToken is answered like a session without targets
TokenRejectedAnswersOk(st) == [st EXCEPT !.pc = "done", !.status = "ok"]

\* const token = await getToken() rejects: nothing catches it, the handler
\* ends there without a result
TokenRejected(st) == [st EXCEPT !.pc = "done", !.status = "error"]

\* await getToken() returns, or rejects
AdvertiseToken(s, ok) ==
    /\ sess[s].pc = "token"
    /\ IF ok
       THEN Resume(s, sess[s])
       ELSE /\ sess' = [sess EXCEPT ![s] = TokenRejected(@)]
            /\ UNCHANGED lastAdAt
            /\ NoNotification
    /\ UNCHANGED <<cooldowns, posted, schedules, schedSeq, extSeq>>
    /\ UNCHANGED sessionFrame

NoRemoval == [category |-> "", checkedUtc |-> 0]

\* results.push({ status: 'posted' }); postedCount += 1, after the PostedRecord
\* is appended if (id)
Posted(s, st, serverKey, entry, id) ==
    /\ posted' = IF id # 0
                 THEN [posted EXCEPT ![serverKey] = appendPostedRecord(@,
                          [id |-> id, subreddit |-> entry.subreddit, serverKey |-> serverKey,
                           createdUtc |-> now \div 1000, status |-> "live",
                           removal |-> NoRemoval])]
                 ELSE posted
    /\ Resume(s, [st EXCEPT !.results = Append(@, [subreddit |-> entry.subreddit,
                                                     status |-> "posted", id |-> id]),
                            !.postedCount = @ + 1, !.idx = @ + 1])

\* mutation: the exception of a target is not caught and ends the session
FailedEndsSession(s, st, entry) ==
    sess' = [sess EXCEPT ![s] = [st EXCEPT !.pc = "done", !.status = "error"]]

\* catch (e): results.push({ status: 'error' }); await sleep(1000)
Failed(s, st, entry) ==
    sess' = [sess EXCEPT ![s] =
               [st EXCEPT !.results = Append(@, [subreddit |-> entry.subreddit,
                                                  status |-> "error"]),
                          !.pc = "sleep", !.wakeAt = now + SLEEP_AFTER_ERROR_MS]]

\* mutation: the entry is written under the subreddit, whatever entry.key
StampCooldownBySubreddit(cd, entry, nowMs) == [cd EXCEPT ![entry.subreddit] = nowMs]

\* cooldowns[entry.key || subreddit] = Date.now()
StampCooldown(cd, entry, nowMs) == [cd EXCEPT ![TargetKey(entry)] = nowMs]

\* what submitPost returns: the response carries an id and a permalink, or not
SubmitResponses == {[id |-> TRUE, url |-> TRUE], [id |-> TRUE, url |-> FALSE],
                    [id |-> FALSE, url |-> FALSE]}

\* await submitPost(...) throws
AdvertiseSubmitFailed(s) ==
    /\ sess[s].pc = "submit"
    /\ Failed(s, sess[s], Subs(sess[s].serverKey)[sess[s].idx])
    /\ UNCHANGED <<lastAdAt, cooldowns, posted, schedules, schedSeq, extSeq>>
    /\ NoNotification
    /\ UNCHANGED sessionFrame

\* await submitPost(...) returns resp and rateLimitPause is over: the cooldown
\* is written, then the id is resolved
AdvertiseSubmitted(s, resp) ==
    /\ sess[s].pc = "submit"
    /\ LET st == sess[s]
           serverKey == st.serverKey
           entry == Subs(serverKey)[st.idx]
           cd == StampCooldown(st.cooldowns, entry, now)
           id == IF resp.id THEN extSeq + 1 ELSE 0
           st1 == [st EXCEPT !.cooldowns = cd, !.id = id, !.permalink = resp.url,
                             !.extId = extSeq + 1, !.published = @ \cup {st.idx}]
       IN  /\ extSeq' = extSeq + 1
           /\ cooldowns' = [cooldowns EXCEPT ![serverKey] = cd]
           /\ IF id = 0 \/ ~resp.url
              THEN /\ sess' = [sess EXCEPT ![s] = [st1 EXCEPT !.pc = "resolve"]]
                   /\ UNCHANGED <<posted, lastAdAt>>
                   /\ NoNotification
              ELSE Posted(s, st1, serverKey, entry, id)
    /\ UNCHANGED <<schedules, schedSeq>>
    /\ UNCHANGED sessionFrame

\* await resolveRecentSubmission(...) returns { id, permalink } (found), null, or throws
AdvertiseResolved(s, outcome) ==
    /\ sess[s].pc = "resolve"
    /\ LET st == sess[s]
           serverKey == st.serverKey
           entry == Subs(serverKey)[st.idx]
       IN  CASE outcome = "found" ->
                  Posted(s, [st EXCEPT !.id = st.extId, !.permalink = TRUE],
                         serverKey, entry, st.extId)
             [] outcome = "null" ->
                  Posted(s, st, serverKey, entry, st.id)
             [] outcome = "throw" ->
                  /\ Failed(s, st, entry)
                  /\ UNCHANGED <<posted, lastAdAt>>
                  /\ NoNotification
    /\ UNCHANGED <<cooldowns, schedules, schedSeq, extSeq>>
    /\ UNCHANGED sessionFrame

\* await sleep(1000) is over: on to the next target
AdvertiseSlept(s) ==
    /\ sess[s].pc = "sleep"
    /\ now >= sess[s].wakeAt
    /\ Resume(s, [sess[s] EXCEPT !.idx = @ + 1])
    /\ UNCHANGED <<cooldowns, posted, schedules, schedSeq, extSeq>>
    /\ UNCHANGED sessionFrame

(***************************************************************************)
(* POST /v1/schedule-advertise                                             *)
(***************************************************************************)
\* values of the request body besides a number and an absent field: null,
\* and a string that is a numeral
Null == [kind |-> "null", val |-> 0]
Numeral(n) == [kind |-> "numeral", val |-> n]
NaN == [kind |-> "nan", val |-> 0]

\* Number(v): a number is itself, null is 0, a numeral string is its number,
\* undefined and any other string are NaN
Number(v) ==
    CASE v.kind = "num" -> v
      [] v.kind = "null" -> Num(0)
      [] v.kind = "numeral" -> Num(v.val)
      [] OTHER -> NaN

\* Number.isFinite(v) converts nothing: true of a number only
isFinite(v) == v.kind = "num"

\* whenMs = Number.isFinite(afterMs) ? Date.now() + Number(afterMs) : Number(at)
WhenMs(at, afterMs) ==
    IF isFinite(afterMs) THEN Num(now + afterMs.val) ELSE Number(at)

\* the body has no serverKey (undefined, '' or null)
NoKey == ""

\* if (!serverKey) 400; if (!Number.isFinite(whenMs)) 400; else { ok: true }
ScheduleAnswer(serverKey, at, afterMs) ==
    IF serverKey = NoKey THEN "serverKey required"
    ELSE IF ~isFinite(WhenMs(at, afterMs)) THEN "at or afterMs required"
    ELSE "ok"

\* the request is accepted: addSchedule(DATA_DIR, { serverKey, whenMs, reason: 'manual' })
ScheduleAdvertise(serverKey, at, afterMs) ==
    LET finite == WhenMs(at, afterMs)
    IN  /\ ScheduleAnswer(serverKey, at, afterMs) = "ok"
        /\ schedules' = addSchedule(schedules, serverKey, finite.val, "manual")
        /\ schedSeq' = schedSeq + 1
        /\ UNCHANGED <<now, dirs, servers, subs, http, mon, lastAdAt, cooldowns, posted, extSeq, sess, tick>>
        /\ NoNotification

\* the request is answered 400 before addSchedule
ScheduleRefused(serverKey, at, afterMs) ==
    /\ ScheduleAnswer(serverKey, at, afterMs) # "ok"
    /\ UNCHANGED <<now, dirs, servers, subs, http, mon, lastAdAt, cooldowns, posted, schedules,
                   schedSeq, extSeq, sess, tick>>
    /\ NoNotification

(***************************************************************************)
(* The schedule ticks: runScheduleTick of lib/scheduler.js                 *)
(* (createScheduleRunner) and runScheduleTick of server.js, which the      *)
(* server runs on its timer.                                               *)
(* pc: idle | fetch (the trigger request is sent) | wait (the advertise    *)
(* handler is running the request)                                         *)
(***************************************************************************)
IdleTick == [pc |-> "idle", kind |-> NULL, now |-> 0, list |-> << >>, i |-> 0]

\* mutation: an entry is taken up to the retry delay before its time
DueEarly(schedule, nowMs) == schedule.whenMs <= nowMs + DEFAULT_RETRY_DELAY_MS

\* if (whenMs > now) continue;   if (s.whenMs <= now) {
Due(schedule, nowMs) == schedule.whenMs <= nowMs

\* for (const schedule of scheduleList): the index of the first due entry from
\* i on, Len(list) + 1 when there is none
RECURSIVE NextDue(_, _, _)
NextDue(list, i, nowMs) ==
    IF i > Len(list) THEN i
    ELSE IF Due(list[i], nowMs) THEN i ELSE NextDue(list, i + 1, nowMs)

\* the tick runs on to its next due entry and sends the trigger, or ends
TickScan(k, t, from) ==
    LET j == NextDue(t.list, from, t.now)
    IN  tick' = [tick EXCEPT ![k] = IF j > Len(t.list) THEN IdleTick
                                    ELSE [t EXCEPT !.pc = "fetch", !.i = j]]

\* const now = Date.now(); const list = listSchedules(DATA_DIR)
TickStart(k, kind) ==
    /\ tick[k].pc = "idle"
    /\ TickScan(k, [IdleTick EXCEPT !.kind = kind, !.now = now, !.list = schedules], 1)
    /\ UNCHANGED <<now, dirs, servers, subs, http, mon, lastAdAt, cooldowns, posted, schedules, schedSeq, extSeq, sess>>
    /\ NoNotification

\* mutation: the trigger asks for a Schedule when the session is throttled
TickRequestAuto(k, s) ==
    /\ tick[k].pc = "fetch"
    /\ AdvertiseStart(s, tick[k].list[tick[k].i].serverKey, FALSE, TRUE, k)
    /\ tick' = [tick EXCEPT ![k].pc = "wait"]

\* the request reaches POST /v1/advertise with dryRun: false,
\* autoScheduleIfThrottled: false
TickRequest(k, s) ==
    /\ tick[k].pc = "fetch"
    /\ AdvertiseStart(s, tick[k].list[tick[k].i].serverKey, FALSE, FALSE, k)
    /\ tick' = [tick EXCEPT ![k].pc = "wait"]

\* mutation: a success response postpones the Schedule like a failure
RunnerSettleKeepsOnOk(list, schedule, tickNow, outcome) ==
    updateSchedule(list, schedule.id, tickNow + DEFAULT_RETRY_DELAY_MS,
                   schedule.attemptCount + 1, tickNow, outcome)

\* mutation: the retry time is counted from the entry's whenMs, not from now
RunnerSettleFromWhen(list, schedule, tickNow, outcome) ==
    IF outcome = "ok"
    THEN removeSchedule(list, schedule.id)
    ELSE updateSchedule(list, schedule.id, schedule.whenMs + DEFAULT_RETRY_DELAY_MS,
                        schedule.attemptCount + 1, tickNow, outcome)

\* mutation: the tick writes back only the entries up to the one it processed
RunnerSettleOwnList(list, schedule, tickNow, outcome) ==
    SelectSeq(IF outcome = "ok"
              THEN removeSchedule(list, schedule.id)
              ELSE updateSchedule(list, schedule.id, tickNow + DEFAULT_RETRY_DELAY_MS,
                                  schedule.attemptCount + 1, tickNow, outcome),
              LAMBDA e : e.id <= schedule.id)

\* scheduler.js: response.ok -> removeSchedule; otherwise, and in catch,
\* updateSchedule with whenMs = now + retryDelayMs.  outcome is "ok", or the
\* lastError of the failure.
RunnerSettle(list, schedule, tickNow, outcome) ==
    IF outcome = "ok"
    THEN removeSchedule(list, schedule.id)
    ELSE updateSchedule(list, schedule.id, tickNow + DEFAULT_RETRY_DELAY_MS,
                        schedule.attemptCount + 1, tickNow, outcome)

\* server.js: try { await fetch } catch { log } finally { removeSchedule }
ServerSettle(list, schedule, tickNow, outcome) ==
    removeSchedule(list, schedule.id)

Settle(k, outcome) ==
    LET t == tick[k]
        schedule == t.list[t.i]
    IN  /\ schedules' = IF t.kind = "runner"
                        THEN RunnerSettle(schedules, schedule, t.now, outcome)
                        ELSE ServerSettle(schedules, schedule, t.now, outcome)
        /\ TickScan(k, t, t.i + 1)

\* the fetch throws (the server cannot be reached), or is answered with a
\* non-2xx status before the handler runs
FetchFailures == {"fetch failed", "status 503"}

TickFetchFails(k, outcome) ==
    /\ tick[k].pc = "fetch"
    /\ outcome \in FetchFailures
    /\ Settle(k, outcome)
    /\ UNCHANGED <<now, dirs, servers, subs, http, mon, lastAdAt, cooldowns, posted, schedSeq, extSeq, sess>>
    /\ NoNotification

\* the HTTP answer of a finished handler: 200 for res.json({ ok: true, ... }),
\* throttled or not; 404 for an unknown server; no answer when it rejected
ResponseOutcome(st, delivery) ==
    CASE st.status = "ok" ->
            IF SessionAnswer(st, delivery).ok THEN "ok" ELSE "status 500"
      [] st.status = "throttled" -> "ok"
      [] st.status = "not_found" -> "status 404"
      [] OTHER -> "fetch failed"

\* await fetch(...) is over: the handler has answered
TickFetchReturns(k, s) ==
    /\ tick[k].pc = "wait"
    /\ sess[s].pc = "done"
    /\ sess[s].caller = k
    /\ \E delivery \in Deliveries : Settle(k, ResponseOutcome(sess[s], delivery))
    /\ sess' = [sess EXCEPT ![s] = IdleSession]
    /\ UNCHANGED <<now, dirs, servers, subs, http, mon, lastAdAt, cooldowns, posted, schedSeq, extSeq>>
    /\ NoNotification

(***************************************************************************)
(* runRemovalMonitorOnce (server.js).                                      *)
(* pc: idle | fetch (await fetchSubmissionInfo, then notifySquire)         *)
(***************************************************************************)
MONITOR_TTL_SEC == MONITOR_TTL_DAYS * 86400

\* thing: what the latest tick's latest fetchSubmissionInfo gave ("none" before it)
IdleMon == [pc |-> "idle", servers |-> << >>, si |-> 0, list |-> << >>, ri |-> 0,
            now |-> 0, changed |-> FALSE, thing |-> "none"]

\* (thing?.removed_by_category || '').toLowerCase(), on the values of Lookups
toLowerCase(cat) ==
    CASE cat = "Deleted" -> "deleted"
      [] cat = "Moderator" -> "moderator"
      [] OTHER -> cat

\* lib/reddit.js classifyRemoval, on thing.removed_by_category ("" = absent)
classifyRemoval(thing) ==
    LET cat == toLowerCase(thing)
    IN  IF cat = "" THEN [removed |-> FALSE, category |-> ""]
        ELSE [removed |-> TRUE, category |-> cat]

\* mutation: the author's own deletion counts as a removal
IsRemovalAnyCategory(c) == c.removed /\ c.category # ""

\* if (removed && category && category !== 'deleted')
IsRemoval(c) == c.removed /\ c.category # "" /\ c.category # "deleted"

\* mutation: a lookup without answer marks the record unknown
LookedOrUnknown(rec, outcome, nowSec) ==
    IF outcome \in {"throw", "null"} THEN [rec EXCEPT !.status = "unknown"]
    ELSE LET c == classifyRemoval(outcome)
         IN  IF IsRemoval(c)
             THEN [rec EXCEPT !.status = "removed",
                              !.removal = [category |-> c.category, checkedUtc |-> nowSec]]
             ELSE rec

\* the record after the try block: fetchSubmissionInfo threw ("throw", caught),
\* gave no thing ("null", continue), or gave a thing with this category
Looked(rec, outcome, nowSec) ==
    IF outcome \in {"throw", "null"} THEN rec
    ELSE LET c == classifyRemoval(outcome)
         IN  IF IsRemoval(c)
             THEN [rec EXCEPT !.status = "removed",
                              !.removal = [category |-> c.category, checkedUtc |-> nowSec]]
             ELSE rec

\* for (const s of servers): list = listPostedRecords(key); now = floor(Date.now()/1000)
LoadServer(m, p, si) ==
    IF si > Len(m.servers) THEN [IdleMon EXCEPT !.thing = m.thing]
    ELSE [m EXCEPT !.si = si, !.list = p[m.servers[si]], !.ri = 1,
                   !.now = now \div 1000, !.changed = FALSE]

\* mutation: the check of the id before the check of the age
LocalCheckIdFirst(rec, nowSec) ==
    IF rec.status # "live" THEN [fetch |-> FALSE, rec |-> rec]
    ELSE IF rec.id = 0
         THEN [fetch |-> FALSE, rec |-> [rec EXCEPT !.status = "unknown"]]
         ELSE IF (nowSec - (IF rec.createdUtc # 0 THEN rec.createdUtc ELSE nowSec)) > MONITOR_TTL_SEC
              THEN [fetch |-> FALSE, rec |-> [rec EXCEPT !.status = "expired"]]
              ELSE [fetch |-> TRUE, rec |-> rec]

\* mutation: without if (rec.status !== 'live') continue
LocalCheckAnyStatus(rec, nowSec) ==
    IF (nowSec - (IF rec.createdUtc # 0 THEN rec.createdUtc ELSE nowSec)) > MONITOR_TTL_SEC
    THEN [fetch |-> FALSE, rec |-> [rec EXCEPT !.status = "expired"]]
    ELSE IF rec.id = 0
         THEN [fetch |-> FALSE, rec |-> [rec EXCEPT !.status = "unknown"]]
         ELSE [fetch |-> TRUE, rec |-> rec]

\* the checks of one record that need no remote call: the record after them,
\* and whether the remote check is due
LocalCheck(rec, nowSec) ==
    IF rec.status # "live" THEN [fetch |-> FALSE, rec |-> rec]
    ELSE IF (nowSec - (IF rec.createdUtc # 0 THEN rec.createdUtc ELSE nowSec)) > MONITOR_TTL_SEC
         THEN [fetch |-> FALSE, rec |-> [rec EXCEPT !.status = "expired"]]
         ELSE IF rec.id = 0
              THEN [fetch |-> FALSE, rec |-> [rec EXCEPT !.status = "unknown"]]
              ELSE [fetch |-> TRUE, rec |-> rec]

\* The tick runs on from record m.ri of server m.si to its next await, or to
\* its end; p is posted.json of every tenant.  if (changed) writePostedRecords
RECURSIVE MonScan(_, _)
MonScan(m, p) ==
    IF m.pc = "idle" THEN [mon |-> m, posted |-> p]
    ELSE IF m.ri > Len(m.list)
         THEN LET key == m.servers[m.si]
                  p2 == IF m.changed THEN [p EXCEPT ![key] = m.list] ELSE p
              IN  MonScan(LoadServer(m, p2, m.si + 1), p2)
         ELSE LET rec == m.list[m.ri]
                  r == LocalCheck(rec, m.now)
              IN  IF r.fetch
                  THEN [mon |-> [m EXCEPT !.pc = "fetch"], posted |-> p]
                  ELSE MonScan([m EXCEPT !.list[m.ri] = r.rec, !.ri = @ + 1,
                                         !.changed = @ \/ r.rec # rec], p)

MonResume(id, m) ==
    LET r == MonScan(m, posted)
    IN  /\ mon' = [mon EXCEPT ![id] = r.mon]
        /\ posted' = r.posted

\* const servers = listServers(DATA_DIR)
MonitorStart(id) ==
    /\ mon[id].pc = "idle"
    /\ MonResume(id, LoadServer([IdleMon EXCEPT !.pc = "scan", !.servers = servers],
                                posted, 1))
    /\ UNCHANGED <<now, dirs, servers, subs, http, lastAdAt, cooldowns, schedules, schedSeq, extSeq,
                   sess, tick>>
    /\ NoNotification

\* what fetchSubmissionInfo gives: it throws, returns null, or returns the
\* thing with its removed_by_category
Lookups == {"throw", "null", "", "deleted", "Deleted", "moderator", "Moderator", "reddit"}

\* notifySquire('cryer.post.removed', { serverKey, subreddit, id, category })
PostRemoved(key, rec, category) ==
    [type |-> "cryer.post.removed", serverKey |-> key, subreddit |-> rec.subreddit,
     id |-> rec.id, category |-> category]

\* await fetchSubmissionInfo(rec.id) is over; a removal is stamped and notified
MonitorFetched(id, outcome) ==
    /\ mon[id].pc = "fetch"
    /\ LET m == mon[id]
           rec == m.list[m.ri]
           rec2 == Looked(rec, outcome, m.now)
           removed == rec2.status = "removed"
       IN  /\ MonResume(id, [m EXCEPT !.pc = "scan", !.list[m.ri] = rec2, !.ri = @ + 1,
                                      !.changed = @ \/ removed, !.thing = outcome])
           /\ notes' = IF removed
                       THEN << PostRemoved(m.servers[m.si], rec, rec2.removal.category) >>
                       ELSE << >>
    /\ UNCHANGED <<now, dirs, servers, subs, http, lastAdAt, cooldowns, schedules, schedSeq, extSeq,
                   sess, tick>>

(***************************************************************************)
(* Tenant removal (cli.js deleteServerAction, store.js deleteServer)        *)
(***************************************************************************)
\* listServers().filter(s => s.key !== serverKey); fs.rmSync(serverDir): the
\* tenant's subreddits.json, cooldowns.json, server.json and posted.json go
\* with the directory; schedules.json, in the data directory, is not touched
deleteServer(serverKey) ==
    /\ servers' = SelectSeq(servers, LAMBDA key : key # serverKey)
    /\ dirs' = dirs \ {serverKey}
    /\ lastAdAt' = [lastAdAt EXCEPT ![serverKey] = 0]
    /\ cooldowns' = [cooldowns EXCEPT ![serverKey] = NoCooldowns]
    /\ posted' = [posted EXCEPT ![serverKey] = << >>]
    /\ UNCHANGED <<now, subs, http, schedules, schedSeq, extSeq, sess, tick, mon>>
    /\ NoNotification

\* the operator picks a tenant of the list and confirms
DeleteServerAction(serverKey) ==
    /\ \E i \in 1 .. Len(servers) : servers[i] = serverKey
    /\ deleteServer(serverKey)

(***************************************************************************)
(* The clock                                                               *)
(***************************************************************************)
\* A response is delivered before the clock moves on.
Advance(t) ==
    /\ \A s \in SessIds : sess[s].pc # "done"
    /\ t > now
    /\ now' = t
    /\ UNCHANGED <<dirs, servers, subs, http, mon, lastAdAt, cooldowns, posted, schedules, schedSeq, extSeq, sess, tick>>
    /\ NoNotification

(***************************************************************************)
(* Specifications                                                          *)
(***************************************************************************)
\* Bounds of the exploration: submissions the platform accepts, and Schedule
\* entries created, in one behaviour.
MaxPosts == 1
MaxSchedules == 1
MaxManual == 2

Init ==
    /\ now = Epoch
    /\ dirs = TenantKeys
    /\ lastAdAt = [t \in AllKeys |-> 0]
    /\ cooldowns = [t \in AllKeys |-> NoCooldowns]
    /\ posted = [t \in AllKeys |-> << >>]
    /\ schedules = << >>
    /\ schedSeq = 0
    /\ extSeq = 0
    /\ sess = [s \in SessIds |-> IdleSession]
    /\ tick = [k \in TickIds |-> IdleTick]
    /\ servers = <<"alpha", "beta", "gamma">>
    /\ subs = << >>
    /\ http = Configured
    /\ mon = [m \in MonSlots |-> IdleMon]
    /\ notes = << >>

\* A handler or a tick that starts takes a slot that is free; which one is
\* no matter, so it is a fixed one.
FreeSess(s) == sess[s].pc = "idle" /\ s = CHOOSE x \in SessIds : sess[x].pc = "idle"
FreeTick(k) == tick[k].pc = "idle" /\ k = CHOOSE x \in TickIds : tick[x].pc = "idle"

\* a request to POST /v1/advertise from a client
ApiAdvertise ==
    \E s \in SessIds, serverKey \in AllKeys, dryRun \in BOOLEAN, auto \in BOOLEAN :
        /\ FreeSess(s)
        /\ \A x \in SessIds : sess[x].pc = "idle"
        /\ auto => schedSeq < MaxSchedules
        /\ \A k \in TickIds : tick[k].pc = "idle"
        /\ AdvertiseStart(s, serverKey, dryRun, auto, "api")
        /\ UNCHANGED tick

\* the client receives the response: the handler is over
ApiResponse ==
    \E s \in SessIds :
        /\ sess[s].pc = "done"
        /\ sess[s].caller = "api"
        /\ \E delivery \in Deliveries :
               ResponseOutcome(sess[s], delivery) \in {"ok", "status 404", "fetch failed"}
        /\ sess' = [sess EXCEPT ![s] = IdleSession]
        /\ UNCHANGED <<lastAdAt, cooldowns, posted, schedules, schedSeq, extSeq>>
        /\ NoNotification
        /\ UNCHANGED sessionFrame

TokenReturns == \E s \in SessIds, ok \in BOOLEAN : AdvertiseToken(s, ok)
SubmitThrows == \E s \in SessIds : AdvertiseSubmitFailed(s)
SubmitReturns ==
    \E s \in SessIds, resp \in SubmitResponses :
        /\ extSeq < MaxPosts
        /\ AdvertiseSubmitted(s, resp)
ResolveReturns ==
    \E s \in SessIds, outcome \in {"found", "null", "throw"} : AdvertiseResolved(s, outcome)
SleepEnds == \E s \in SessIds : AdvertiseSlept(s)
ClockAdvances == \E t \in Instants : Advance(t)

SessionNext ==
    \/ ApiAdvertise
    \/ ApiResponse
    \/ TokenReturns
    \/ SubmitThrows
    \/ SubmitReturns
    \/ ResolveReturns
    \/ SleepEnds
    \/ ClockAdvances

Spec == Init /\ [][SessionNext]_vars

\* The schedule runtime.  Handlers run one at a time: a request or a tick
\* starts when no other handler is running.
NoHandler ==
    /\ \A s \in SessIds : sess[s].pc = "idle"
    /\ \A k \in TickIds : tick[k].pc = "idle"

\* The requests and the instants of the schedule runtime's exploration.
ScheduleKeys == {"beta", "ghost"}
ScheduleAts == {Num(Epoch + DAY_MS + 1), Unset}
ScheduleAfters == {Num(0), Num(DEFAULT_RETRY_DELAY_MS), Unset}
TickInstants == {Epoch + o : o \in Offsets} \cup {Epoch + DAY_MS + 1}

ApiSchedule ==
    \E serverKey \in ScheduleKeys, at \in ScheduleAts, afterMs \in ScheduleAfters :
        /\ schedSeq < MaxManual
        /\ NoHandler
        /\ ScheduleAdvertise(serverKey, at, afterMs)

RunnerTickStarts == \E k \in TickIds : NoHandler /\ FreeTick(k) /\ TickStart(k, "runner")
ServerTickStarts == \E k \in TickIds : NoHandler /\ FreeTick(k) /\ TickStart(k, "server")
TriggerArrives == \E k \in TickIds, s \in SessIds : FreeSess(s) /\ TickRequest(k, s)
TriggerFails == \E k \in TickIds, outcome \in FetchFailures : TickFetchFails(k, outcome)
TriggerReturns == \E k \in TickIds, s \in SessIds : TickFetchReturns(k, s)

TickClockAdvances == \E t \in TickInstants : Advance(t)

TickNext ==
    \/ ApiSchedule
    \/ TriggerArrives
    \/ TriggerFails
    \/ TriggerReturns
    \/ TokenReturns
    \/ SubmitThrows
    \/ SubmitReturns
    \/ ResolveReturns
    \/ SleepEnds
    \/ TickClockAdvances

\* The removal monitor beside the sessions that create the records.
MonMaxPosts == 2
MonitorInstants ==
    {Epoch, Epoch + MONITOR_TTL_DAYS * DAY_MS,
     Epoch + MONITOR_TTL_DAYS * DAY_MS + DEFAULT_RETRY_DELAY_MS}

MonAdvertise ==
    \E s \in SessIds, serverKey \in TenantKeys :
        /\ FreeSess(s)
        /\ NoHandler
        /\ \A m \in MonIds : mon[m].pc = "idle"
        /\ AdvertiseStart(s, serverKey, FALSE, FALSE, "api")
        /\ UNCHANGED tick
MonSubmitReturns ==
    \E s \in SessIds, resp \in SubmitResponses :
        /\ extSeq < MonMaxPosts
        /\ AdvertiseSubmitted(s, resp)
MonitorStarts == \E m \in MonIds : NoHandler /\ MonitorStart(m)
LookupReturns == \E m \in MonIds, outcome \in Lookups : MonitorFetched(m, outcome)
MonClockAdvances == \E t \in MonitorInstants : Advance(t)

MonitorNext ==
    \/ MonAdvertise
    \/ ApiResponse
    \/ TokenReturns
    \/ SubmitThrows
    \/ MonSubmitReturns
    \/ ResolveReturns
    \/ SleepEnds
    \/ MonitorStarts
    \/ LookupReturns
    \/ MonClockAdvances

MonitorSpec == Init /\ [][MonitorNext]_vars

\* The removal monitor over a posted.json read from disk: the file of one
\* tenant holds any records, also records without id or createdUtc, which the
\* sessions of this version never write.
PostedTenant == "alpha"
PostedRecordInputs ==
    {[id |-> id, subreddit |-> "r1", serverKey |-> PostedTenant, createdUtc |-> c,
      status |-> st.status, removal |-> st.removal] :
        id \in {0, 7}, c \in {0, Epoch \div 1000},
        st \in {[status |-> "live", removal |-> NoRemoval],
                [status |-> "removed",
                 removal |-> [category |-> "moderator", checkedUtc |-> Epoch \div 1000]]}}
PostedInputs ==
    {<< >>} \cup {<<r>> : r \in PostedRecordInputs}
            \cup {<<r1, r2>> : r1 \in PostedRecordInputs, r2 \in PostedRecordInputs}

PostedInit ==
    /\ now = Epoch
    /\ dirs = TenantKeys
    /\ lastAdAt = [t \in AllKeys |-> 0]
    /\ cooldowns = [t \in AllKeys |-> NoCooldowns]
    /\ \E list \in PostedInputs :
          posted = [t \in AllKeys |-> IF t = PostedTenant THEN list ELSE << >>]
    /\ schedules = << >>
    /\ schedSeq = 0
    /\ extSeq = 0
    /\ sess = [s \in SessIds |-> IdleSession]
    /\ tick = [k \in TickIds |-> IdleTick]
    /\ servers = <<"alpha", "beta", "gamma">>
    /\ subs = << >>
    /\ http = Configured
    /\ mon = [m \in MonSlots |-> IdleMon]
    /\ notes = << >>

PostedSpec == PostedInit /\ [][MonitorStarts \/ LookupReturns \/ MonClockAdvances]_vars

\* The runner in the process of the endpoints: POST /v1/schedule-advertise is
\* handled whenever it arrives, also while a tick waits for its trigger call.
EndpointMaxSchedules == 3
EndpointTickNext ==
    \/ \E serverKey \in ScheduleKeys, afterMs \in {Num(0), Num(1)} :
          /\ schedSeq < EndpointMaxSchedules
          /\ ScheduleAdvertise(serverKey, Unset, afterMs)
    \/ RunnerTickStarts
    \/ TriggerArrives
    \/ TriggerFails
    \/ TriggerReturns
    \/ TokenReturns
    \/ SubmitThrows
    \/ SubmitReturns
    \/ ResolveReturns
    \/ SleepEnds
    \/ \E s \in SessIds : sess[s].pc = "sleep" /\ Advance(sess[s].wakeAt)
EndpointTickSpec == Init /\ [][EndpointTickNext]_vars

\* Monitor ticks that overlap: setInterval starts runRemovalMonitorOnce every
\* MONITOR_INTERVAL_MS, whether or not the tick before it has returned.
MonitorTicksNext ==
    \/ \E m \in MonSlots : MonitorStart(m)
    \/ \E m \in MonSlots, outcome \in Lookups : MonitorFetched(m, outcome)
    \/ MonClockAdvances
MonitorTicksSpec == PostedInit /\ [][MonitorTicksNext]_vars

\* A session and a monitor tick that overlap: setInterval starts a tick, and
\* express the handler, while the other is waiting at an await.
OverlapAdvertise ==
    \E s \in SessIds, serverKey \in TenantKeys :
        /\ FreeSess(s)
        /\ \A x \in SessIds : sess[x].pc = "idle"
        /\ \A k \in TickIds : tick[k].pc = "idle"
        /\ AdvertiseStart(s, serverKey, FALSE, FALSE, "api")
        /\ UNCHANGED tick
OverlapMonitorStarts == \E m \in MonIds : MonitorStart(m)

MonitorOverlapNext ==
    \/ OverlapAdvertise
    \/ ApiResponse
    \/ TokenReturns
    \/ SubmitThrows
    \/ MonSubmitReturns
    \/ ResolveReturns
    \/ SleepEnds
    \/ OverlapMonitorStarts
    \/ LookupReturns
    \/ MonClockAdvances

MonitorOverlapSpec == Init /\ [][MonitorOverlapNext]_vars

\* Ticks that overlap: the timer starts a tick while the trigger of an earlier
\* tick is pending, and the handler of a trigger starts while another runs.
OverlapMaxPosts == 2
OverlapMaxSchedules == 1
OverlapSchedule ==
    \E serverKey \in ScheduleKeys, afterMs \in ScheduleAfters :
        /\ schedSeq < OverlapMaxSchedules
        /\ NoHandler
        /\ ScheduleAdvertise(serverKey, Unset, afterMs)
RunnerOverlapTickStarts == \E k \in TickIds : FreeTick(k) /\ TickStart(k, "runner")
ServerOverlapTickStarts == \E k \in TickIds : FreeTick(k) /\ TickStart(k, "server")
OverlapSubmitReturns ==
    \E s \in SessIds, resp \in SubmitResponses :
        /\ extSeq < OverlapMaxPosts
        /\ AdvertiseSubmitted(s, resp)

TickOverlapNext ==
    \/ OverlapSchedule
    \/ TriggerArrives
    \/ TriggerFails
    \/ TriggerReturns
    \/ TokenReturns
    \/ SubmitThrows
    \/ OverlapSubmitReturns
    \/ ResolveReturns
    \/ SleepEnds
    \/ TickClockAdvances

RunnerOverlapSpec == Init /\ [][RunnerOverlapTickStarts \/ TickOverlapNext]_vars
ServerOverlapSpec == Init /\ [][ServerOverlapTickStarts \/ TickOverlapNext]_vars

\* Tenants that post, have Schedules and are removed by the operator, one
\* operation at a time.
TenantDeleted ==
    \E serverKey \in TenantKeys :
        /\ NoHandler
        /\ \A m \in MonIds : mon[m].pc = "idle"
        /\ DeleteServerAction(serverKey)

TenantAdvertise ==
    \E s \in SessIds, serverKey \in ScheduleKeys :
        /\ FreeSess(s)
        /\ NoHandler
        /\ AdvertiseStart(s, serverKey, FALSE, FALSE, "api")
        /\ UNCHANGED tick

TenantNext ==
    \/ TenantAdvertise
    \/ ApiResponse
    \/ TokenReturns
    \/ SubmitThrows
    \/ SubmitReturns
    \/ ResolveReturns
    \/ SleepEnds
    \/ ApiSchedule
    \/ TenantDeleted
    \/ TickClockAdvances

TenantSpec == Init /\ [][TenantNext]_vars

RunnerSpec == Init /\ [][RunnerTickStarts \/ TickNext]_vars
ServerSpec == Init /\ [][ServerTickStarts \/ TickNext]_vars

\* POST /v1/schedule-advertise with any body: serverKey present or not, at and
\* afterMs a number, absent, null, a numeral string or another string
RequestKeys == ScheduleKeys \cup {NoKey}
RequestAts == ScheduleAts \cup {Null, Numeral(Epoch + 1), NotANumber}
RequestAfters == ScheduleAfters \cup {Null, Numeral(0), NotANumber}

RequestSchedule ==
    \E serverKey \in RequestKeys, at \in RequestAts, afterMs \in RequestAfters :
        /\ schedSeq < MaxManual
        /\ NoHandler
        /\ \/ ScheduleAdvertise(serverKey, at, afterMs)
           \/ ScheduleRefused(serverKey, at, afterMs)

ScheduleSpec == Init /\ [][RequestSchedule \/ TickClockAdvances]_vars

\* Two requests to POST /v1/advertise in flight at once: a handler starts
\* while the other is suspended on one of its awaits.
SessionOverlapNext ==
    \/ \E s \in SessIds, serverKey \in {"alpha", "beta"}, dryRun \in BOOLEAN :
          AdvertiseStart(s, serverKey, dryRun, FALSE, "api") /\ UNCHANGED tick
    \/ ApiResponse
    \/ TokenReturns
    \/ SubmitThrows
    \/ OverlapSubmitReturns
    \/ ResolveReturns
    \/ SleepEnds
    \/ TickClockAdvances

SessionOverlapSpec == Init /\ [][SessionOverlapNext]_vars

\* The runner with Schedules of tenant alpha, which has several targets:
\* ticks and handlers one at a time.  The clock moves only when the timer of
\* an await sleep(1000) fires.
SameTickNext ==
    \/ \E afterMs \in {Num(0), Num(1)} :
          /\ schedSeq < MaxManual
          /\ NoHandler
          /\ ScheduleAdvertise("alpha", Unset, afterMs)
    \/ RunnerTickStarts
    \/ TriggerArrives
    \/ TriggerFails
    \/ TriggerReturns
    \/ TokenReturns
    \/ SubmitThrows
    \/ OverlapSubmitReturns
    \/ ResolveReturns
    \/ SleepEnds
    \/ \E s \in SessIds : sess[s].pc = "sleep" /\ Advance(sess[s].wakeAt)
SameTickSpec == Init /\ [][SameTickNext]_vars

\* The target list of a tenant as the CLI edits it (store.js).
\* key = entry.key || entry.subreddit
KeyOf(entry) == IF entry.key = "" THEN entry.subreddit ELSE entry.key

\* the first index of list whose entry has that key, 0 for findIndex's -1
findIndex(list, key) ==
    IF \E i \in 1 .. Len(list) : KeyOf(list[i]) = key
    THEN CHOOSE i \in 1 .. Len(list) :
            /\ KeyOf(list[i]) = key
            /\ \A j \in 1 .. i - 1 : KeyOf(list[j]) # key
    ELSE 0

\* mutation: the entry is pushed whether or not its key is in the list
upsertSubredditPush(list, entry) == Append(list, entry)

\* if (ix >= 0) list[ix] = entry; else list.push(entry)
upsertSubreddit(list, entry) ==
    LET ix == findIndex(list, KeyOf(entry))
    IN  IF ix > 0 THEN [list EXCEPT ![ix] = entry] ELSE Append(list, entry)

\* list.filter(e => (e.key || e.subreddit) !== keyOrSubreddit)
deleteSubreddit(list, keyOrSubreddit) ==
    SelectSeq(list, LAMBDA e : KeyOf(e) # keyOrSubreddit)

\* the entries the CLI writes: with and without a key of their own, and two
\* contents to tell a replaced entry from the old one
SubEntries ==
    [subreddit : {"r1", "r2"}, key : {"", "r1", "k2"}, title : {"a", "b"}]
MaxSubs == 4

SubsEdited ==
    /\ \/ \E entry \in SubEntries :
              /\ Len(subs) < MaxSubs
              /\ subs' = upsertSubreddit(subs, entry)
       \/ \E key \in {"r1", "r2", "k2"} : subs' = deleteSubreddit(subs, key)
    /\ UNCHANGED <<now, dirs, servers, http, mon, lastAdAt, cooldowns, posted, schedules,
                   schedSeq, extSeq, sess, tick>>
    /\ NoNotification

SubsSpec == Init /\ [][SubsEdited]_vars

\* mutation: without a configured key the requests pass
authOpen(sharedKey, header) ==
    IF sharedKey # "" /\ (IF header = NoHeader THEN "" ELSE header) # sharedKey
    THEN "403"
    ELSE "next"

\* auth: if (!SHARED_KEY) 500; key = req.header('X-Cryer-Key') || '';
\* if (key !== SHARED_KEY) 403; next()
auth(sharedKey, header) ==
    IF sharedKey = "" THEN "500"
    ELSE IF (IF header = NoHeader THEN "" ELSE header) # sharedKey THEN "403"
    ELSE "next"

\* the middleware of the three POST routes lets the request through to its
\* handler; a request that it answers with 500 or 403 changes nothing
Authorized == auth(http.SHARED_KEY, http.header) = "next"

\* mutation: the key is pushed and the files are written whether or not they exist
ensureServerScaffoldAnew(serverKey) ==
    /\ servers' = Append(servers, serverKey)
    /\ dirs' = dirs \cup {serverKey}
    /\ lastAdAt' = [lastAdAt EXCEPT ![serverKey] = 0]
    /\ cooldowns' = [cooldowns EXCEPT ![serverKey] = NoCooldowns]
    /\ posted' = [posted EXCEPT ![serverKey] = << >>]
    /\ UNCHANGED <<now, subs, http, schedules, schedSeq, extSeq, sess, tick, mon>>
    /\ NoNotification

\* ensureServerScaffold: the key is pushed to servers.json if it is not in the
\* list; mkdir; each file of the tenant is written with its default only if
\* it does not exist (the files exist when the directory does)
ensureServerScaffold(serverKey) ==
    /\ servers' = IF \E i \in 1 .. Len(servers) : servers[i] = serverKey
                  THEN servers
                  ELSE Append(servers, serverKey)
    /\ dirs' = dirs \cup {serverKey}
    /\ lastAdAt' = IF serverKey \in dirs THEN lastAdAt
                   ELSE [lastAdAt EXCEPT ![serverKey] = 0]
    /\ cooldowns' = IF serverKey \in dirs THEN cooldowns
                    ELSE [cooldowns EXCEPT ![serverKey] = NoCooldowns]
    /\ posted' = IF serverKey \in dirs THEN posted
                 ELSE [posted EXCEPT ![serverKey] = << >>]
    /\ UNCHANGED <<now, subs, http, schedules, schedSeq, extSeq, sess, tick, mon>>
    /\ NoNotification

\* POST /v1/register-server: if (!serverKey) 400; await ensureServerScaffold
RegisterServer(serverKey) ==
    /\ serverKey # NoKey
    /\ ensureServerScaffold(serverKey)

\* The three POST routes behind auth, with a client that sends any
\* X-Cryer-Key or none.
Headers == {NoHeader, "", SharedKey, "wrong"}
AuthInit ==
    /\ now = Epoch
    /\ dirs = TenantKeys
    /\ lastAdAt = [t \in AllKeys |-> 0]
    /\ cooldowns = [t \in AllKeys |-> NoCooldowns]
    /\ posted = [t \in AllKeys |-> << >>]
    /\ schedules = << >>
    /\ schedSeq = 0
    /\ extSeq = 0
    /\ sess = [s \in SessIds |-> IdleSession]
    /\ tick = [k \in TickIds |-> IdleTick]
    /\ servers = <<"alpha", "beta", "gamma">>
    /\ subs = << >>
    /\ http \in [SHARED_KEY : {"", SharedKey}, header : Headers]
    /\ mon = [m \in MonSlots |-> IdleMon]
    /\ notes = << >>

AuthNext ==
    \/ \E header \in Headers :
          /\ NoHandler
          /\ http' = [http EXCEPT !.header = header]
          /\ UNCHANGED <<now, dirs, servers, subs, mon, lastAdAt, cooldowns, posted,
                         schedules, schedSeq, extSeq, sess, tick>>
          /\ NoNotification
    \/ \E serverKey \in {NoKey, "beta", "ghost"} :
          /\ Authorized
          /\ NoHandler
          /\ RegisterServer(serverKey)
    \/ \E serverKey \in ScheduleKeys, afterMs \in {Num(0), Num(1)} :
          /\ Authorized
          /\ NoHandler
          /\ schedSeq < MaxManual
          /\ ScheduleAdvertise(serverKey, Unset, afterMs)
    \/ \E s \in SessIds, serverKey \in ScheduleKeys :
          /\ Authorized
          /\ FreeSess(s)
          /\ NoHandler
          /\ AdvertiseStart(s, serverKey, FALSE, FALSE, "api")
          /\ UNCHANGED tick
    \/ ApiResponse
    \/ TokenReturns
    \/ SubmitThrows
    \/ SubmitReturns
    \/ ResolveReturns
    \/ SleepEnds
    \/ TickClockAdvances
AuthSpec == AuthInit /\ [][AuthNext]_vars

\* mutation: schedules.json does not outlast the process
RestartForgets ==
    /\ sess' = [s \in SessIds |-> IdleSession]
    /\ tick' = [k \in TickIds |-> IdleTick]
    /\ mon' = [m \in MonSlots |-> IdleMon]
    /\ schedules' = << >>
    /\ UNCHANGED <<now, dirs, servers, subs, http, lastAdAt, cooldowns, posted, schedSeq, extSeq>>
    /\ NoNotification

\* The process stops and starts again. The handlers and ticks in flight are
\* gone with what they held in memory; every list is a file of the data
\* directory (schedules.json is read by listSchedules at each tick) and is
\* there as it was last written.
Restart ==
    /\ sess' = [s \in SessIds |-> IdleSession]
    /\ tick' = [k \in TickIds |-> IdleTick]
    /\ mon' = [m \in MonSlots |-> IdleMon]
    /\ UNCHANGED <<now, dirs, servers, subs, http, lastAdAt, cooldowns, posted, schedules, schedSeq, extSeq>>
    /\ NoNotification

\* the Schedules of the exploration with restarts
RestartMaxSchedules == 2

RestartSchedule ==
    \E afterMs \in {Num(0), Num(DEFAULT_RETRY_DELAY_MS)} :
        /\ schedSeq < RestartMaxSchedules
        /\ NoHandler
        /\ ScheduleAdvertise("beta", Unset, afterMs)

\* the runner of lib/scheduler.js, with stops of the process at any step
RestartNext ==
    \/ RestartSchedule
    \/ RunnerTickStarts
    \/ TriggerArrives
    \/ TriggerFails
    \/ TriggerReturns
    \/ TokenReturns
    \/ SubmitThrows
    \/ SubmitReturns
    \/ ResolveReturns
    \/ SleepEnds
    \/ TickClockAdvances
    \/ Restart

RestartSpec == Init /\ [][RestartNext]_vars

\* The runner while ticks keep occurring and time passes: Schedules of tenant
\* beta are created and triggers fail while the clock has instants to come
\* (a retry is due DEFAULT_RETRY_DELAY_MS later); from the last instant on
\* every trigger is answered.  A handler that sleeps after an error is woken
\* by the time that passes.
LiveMaxSchedules == 1

LiveNext ==
    \/ \E afterMs \in {Num(0), Num(DEFAULT_RETRY_DELAY_MS)} :
          /\ now < Epoch + DAY_MS + 1
          /\ schedSeq < LiveMaxSchedules
          /\ NoHandler
          /\ ScheduleAdvertise("beta", Unset, afterMs)
    \/ RunnerTickStarts
    \/ TriggerArrives
    \/ \E k \in TickIds, outcome \in FetchFailures :
          /\ tick[k].now < Epoch + DAY_MS + 1
          /\ TickFetchFails(k, outcome)
    \/ TriggerReturns
    \/ \E s \in SessIds, ok \in BOOLEAN :
          /\ ok \/ now < Epoch + DAY_MS + 1
          /\ AdvertiseToken(s, ok)
    \/ SubmitThrows
    \/ SubmitReturns
    \/ ResolveReturns
    \/ SleepEnds
    \/ TickClockAdvances
    \/ \E s \in SessIds :
          /\ sess[s].pc = "sleep"
          /\ Advance(sess[s].wakeAt)

LiveSpec == Init /\ [][LiveNext]_vars /\ WF_vars(LiveNext)

(***************************************************************************)
(* Properties                                                              *)
(***************************************************************************)
\* the step in which the handler of slot s starts
Starts(s) == sess[s].pc = "idle" /\ sess'[s].pc # "idle"

\* the key of a target's CooldownRecord entry, and its cadence in days
EntryKey(entry) == IF entry.key = "" THEN entry.subreddit ELSE entry.key
EntryDays(entry) ==
    IF entry.rules.cooldownDays.kind = "num" THEN entry.rules.cooldownDays.val ELSE 1

\* C1 (Throttle Gate): a session requested at time N for a tenant with
\* lastPublishAt = L passes the gate iff L = 0 or N - L >= 86,400,000 ms;
\* otherwise it answers status = throttled with throttleUntil = L + 86,400,000.
C1_ThrottleGate ==
    [][\A s \in SessIds :
         Starts(s) =>
           LET L == lastAdAt[sess'[s].serverKey]
               eligible == L = 0 \/ now - L >= 86400000
           IN  /\ (sess'[s].status # "throttled") <=> eligible
               /\ ~eligible => /\ sess'[s].pc = "done"
                               /\ sess'[s].throttleUntil = L + 86400000]_vars

\* a session is throttled one millisecond before the window ends
C1_Witness ==
    \E s \in SessIds :
        /\ sess[s].pc = "done"
        /\ sess[s].status = "throttled"
        /\ now - lastAdAt[sess[s].serverKey] = 86399999

\* C2 (Cooldown Gate): a non-throttled session records skip_cooldown for a
\* target with cadence d days (1 when unset or not a finite number) and last
\* recorded success S (0 without an entry) iff now - S < d * 86,400,000 ms;
\* a target with d = 0 is never skipped.  (S is read before the session's own
\* publish call for the target, which overwrites it.)
C2_CooldownGate ==
    [][\A s \in SessIds :
         \A i \in (Len(sess[s].results) + 1) .. Len(sess'[s].results) :
            LET entry == Subs(sess'[s].serverKey)[i]
                S == cooldowns[sess'[s].serverKey][EntryKey(entry)]
                d == EntryDays(entry)
                skipped == sess'[s].results[i].status = "skip_cooldown"
            IN  /\ i \notin sess'[s].published =>
                      (skipped <=> now - S < d * 86400000)
                /\ i \in sess'[s].published => ~skipped
                /\ d = 0 => ~skipped]_vars

\* the two-day target is skipped one millisecond before its cadence is over,
\* and the target after it, never posted, is not
C2_Witness ==
    \E s \in SessIds :
        /\ sess[s].serverKey = "alpha"
        /\ Len(sess[s].results) >= 2
        /\ sess[s].results[1].status = "skip_cooldown"
        /\ sess[s].results[2].status = "invalid"
        /\ now - cooldowns["alpha"]["r1"] = 2 * 86400000 - 1

\* the ids in a schedule list, and the entry of an id
Ids(list) == {list[i].id : i \in 1 .. Len(list)}
EntryOf(list, id) == list[CHOOSE i \in 1 .. Len(list) : list[i].id = id]

\* the Schedule that tick k has triggered and is waiting on
Triggered(k) == tick[k].list[tick[k].i]

\* the step in which the trigger of tick k is answered with a 2xx status
TriggerSucceeds(k) ==
    /\ tick[k].pc = "wait"
    /\ tick'[k] # tick[k]
    /\ \E s \in SessIds : /\ sess[s].pc = "done"
                          /\ sess[s].caller = k
                          /\ sess[s].status \in {"ok", "throttled"}

\* the step in which the trigger of tick k throws or is answered non-2xx
TriggerFailsAt(k) ==
    \/ tick[k].pc = "fetch" /\ tick'[k] # tick[k] /\ tick'[k].pc # "wait"
    \/ /\ tick[k].pc = "wait"
       /\ tick'[k] # tick[k]
       /\ \E s \in SessIds : /\ sess[s].pc = "done"
                             /\ sess[s].caller = k
                             /\ sess[s].status \notin {"ok", "throttled"}

\* the step in which tick k sends the trigger of a Schedule
Triggers(k) ==
    /\ tick'[k].pc = "fetch"
    /\ tick[k].pc = "fetch" => tick'[k].i # tick[k].i

\* C3 (Schedule idempotence): a due Schedule whose trigger is answered with a
\* success response is removed from the schedule list in that step, it alone,
\* and a Schedule id that has left the list is never in the list or triggered
\* by a tick again.
C3_ScheduleIdempotence ==
    [][/\ \A k \in TickIds :
            TriggerSucceeds(k) =>
              /\ Triggered(k).id \in Ids(schedules)
              /\ Len(schedules') = Len(schedules) - 1
              /\ schedules' = SelectSeq(schedules,
                                  LAMBDA e : e.id # Triggered(k).id)
       /\ \A id \in (1 .. schedSeq) \ Ids(schedules) :
            /\ id \notin Ids(schedules')
            /\ \A k \in TickIds :
                 Triggers(k) => tick'[k].list[tick'[k].i].id # id]_vars

\* a tick that started after a Schedule was removed is triggering another one
C3_Witness ==
    \E k \in TickIds :
        /\ tick[k].pc = "fetch"
        /\ tick[k].kind = "runner"
        /\ \E id \in 1 .. schedSeq :
             id \notin Ids(schedules) /\ id \notin Ids(tick[k].list)

\* C4 (Retry monotonicity): when the trigger of a due Schedule throws or is
\* answered non-2xx, the same id stays in the list, at its place, with
\* attemptCount one more, lastAttemptMs = the tick's now, lastError set and
\* whenMs = now + 300,000 ms, at least the retry delay past its earlier whenMs;
\* no other entry changes.
C4_RetryMonotonicity ==
    [][\A k \in TickIds :
         TriggerFailsAt(k) =>
           LET id == Triggered(k).id
               old == EntryOf(schedules, id)
               new == EntryOf(schedules', id)
           IN  /\ id \in Ids(schedules)
               /\ Len(schedules') = Len(schedules)
               /\ \A i \in 1 .. Len(schedules) :
                    schedules[i].id # id => schedules'[i] = schedules[i]
               /\ \A i \in 1 .. Len(schedules) :
                    schedules[i].id = id => schedules'[i].id = id
               /\ new.attemptCount = old.attemptCount + 1
               /\ new.lastAttemptMs = tick[k].now
               /\ new.lastError # ""
               /\ new.whenMs = tick[k].now + 300000
               /\ new.whenMs >= old.whenMs + 300000
               /\ new.serverKey = old.serverKey
               /\ new.reason = old.reason]_vars

\* a Schedule has failed twice, the second time at its retry time
C4_Witness ==
    \E i \in 1 .. Len(schedules) :
        /\ schedules[i].attemptCount = 2
        /\ schedules[i].lastError # ""
        /\ schedules[i].whenMs = schedules[i].lastAttemptMs + 300000
        /\ schedules[i].lastAttemptMs > Epoch

\* C5: a Schedule entry leaves the schedule list only in a step in which its
\* trigger is answered with a success response; when the trigger fails the
\* entry is still listed, with lastError and attemptCount recorded.  Stated
\* of the tick the server process runs on its timer.
C5_FailureNotDropped ==
    [][/\ \A id \in Ids(schedules) \ Ids(schedules') :
            \E k \in TickIds : TriggerSucceeds(k) /\ Triggered(k).id = id
       /\ \A k \in TickIds :
            TriggerFailsAt(k) =>
              /\ Triggered(k).id \in Ids(schedules')
              /\ EntryOf(schedules', Triggered(k).id).lastError # ""
              /\ EntryOf(schedules', Triggered(k).id).attemptCount > 0]_vars

\* the outcomes a target can be given
Outcomes == {"skip_cooldown", "invalid", "dry_run_ok", "posted", "error"}

\* C6 (session non-starvation): a session that passes the throttle gate, finds
\* its tenant and gets its token gives every target exactly one outcome, in
\* stored order; an error on one target never ends the session, which goes on
\* to the targets after it.
C6_NonStarvation ==
    \A s \in SessIds :
        LET st == sess[s]
        IN  /\ st.pc \in {"submit", "resolve"} =>
                 /\ st.idx <= Len(Subs(st.serverKey))
                 /\ Len(st.results) = st.idx - 1
            /\ st.pc = "sleep" =>
                 /\ st.idx <= Len(Subs(st.serverKey))
                 /\ Len(st.results) = st.idx
                 /\ st.results[st.idx].status = "error"
            /\ st.pc = "done" =>
                 \/ st.status = "ok" /\ Len(st.results) = Len(Subs(st.serverKey))
                 \/ st.status \in {"throttled", "not_found", "error"} /\ st.results = << >>
            /\ \A i \in 1 .. Len(st.results) :
                 /\ st.results[i].subreddit = Subs(st.serverKey)[i].subreddit
                 /\ st.results[i].status \in Outcomes

\* a finished session whose first target failed and whose last was published
C6_Witness ==
    \E s \in SessIds :
        /\ sess[s].pc = "done"
        /\ sess[s].status = "ok"
        /\ sess[s].serverKey = "alpha"
        /\ sess[s].results[1].status = "error"
        /\ sess[s].results[3].status = "posted"

\* C7 (lifecycle monotonicity): a PostedRecord whose status is not live is
\* never changed or dropped by a monitor tick (nor by anything else).
C7_LifecycleMonotone ==
    [][\A t \in AllKeys :
         \A i \in 1 .. Len(posted[t]) :
            posted[t][i].status # "live" =>
               /\ Len(posted'[t]) >= i
               /\ posted'[t][i] = posted[t][i]]_vars

\* a monitor tick has loaded a record that was already removed or expired,
\* has passed over it, and is looking up a later record of the same tenant
C7_Witness ==
    \E m \in MonIds :
        /\ mon[m].pc = "fetch"
        /\ \E i \in 1 .. (mon[m].ri - 1) :
             /\ mon[m].list[i].status \in {"removed", "expired"}
             /\ posted[mon[m].servers[mon[m].si]][i] = mon[m].list[i]

\* the step in which slot s finishes a session that reached the target loop
Finishes(s) == sess[s].pc \notin {"idle", "done"} /\ sess'[s].pc = "done"

\* C8 (as stated): lastPublishAt of a tenant changes in a step iff the step
\* finishes a non-dry-run session of the tenant in which at least one publish
\* call succeeded.
C8_LastPublishAt ==
    [][\A t \in AllKeys :
         (lastAdAt'[t] # lastAdAt[t]) <=>
            \E s \in SessIds : /\ Finishes(s)
                               /\ sess'[s].serverKey = t
                               /\ sess'[s].status = "ok"
                               /\ ~sess'[s].dryRun
                               /\ sess'[s].published # {}]_vars

\* the step in which the publish call of slot s returns successfully
Publishes(s) == sess[s].pc = "submit" /\ sess'[s].published # sess[s].published

\* C9: the CooldownRecord entry of a target is set, to the time of the call,
\* in the step in which a publish call for that target returns successfully,
\* and no entry changes in any other step (skip_cooldown, invalid, dry_run_ok
\* and error outcomes leave the record alone).
C9_CooldownOnSuccess ==
    [][/\ \A s \in SessIds :
            Publishes(s) =>
              LET t == sess[s].serverKey
                  key == EntryKey(Subs(t)[sess[s].idx])
              IN  cooldowns' = [cooldowns EXCEPT ![t][key] = now]
       /\ cooldowns' # cooldowns => \E s \in SessIds : Publishes(s)]_vars

\* a finished session: its keyed target was published and has its entry, the
\* target it failed on and the invalid one have none
C9_Witness ==
    \E s \in SessIds :
        /\ sess[s].pc = "done"
        /\ sess[s].status = "ok"
        /\ sess[s].serverKey = "alpha"
        /\ sess[s].published = {3}
        /\ sess[s].results[1].status = "error"
        /\ cooldowns["alpha"]["k3"] >= Epoch
        /\ cooldowns["alpha"]["r1"] = 0
        /\ cooldowns["alpha"]["k2"] = 0

\* C10 (as stated): a target whose publish call succeeded gets the outcome
\* posted, which appends exactly one live PostedRecord and counts one success;
\* the outcome error is given only to a target whose publish call failed.
C10_PublishRecorded ==
    [][\A s \in SessIds :
         \A i \in (Len(sess[s].results) + 1) .. Len(sess'[s].results) :
            LET t == sess'[s].serverKey
                r == sess'[s].results[i]
            IN  /\ i \in sess'[s].published => r.status = "posted"
                /\ r.status = "error" => i \notin sess'[s].published
                /\ r.status = "posted" =>
                     /\ Len(posted'[t]) = Len(posted[t]) + 1
                     /\ posted'[t][Len(posted'[t])].status = "live"
                     /\ posted'[t][Len(posted'[t])].subreddit = r.subreddit
                     /\ sess'[s].postedCount = sess[s].postedCount + 1]_vars

\* the step in which slot s starts a session that the throttle gate stops
StartsThrottled(s) == Starts(s) /\ sess'[s].status = "throttled"

\* C11: a throttled session does no per-target processing: it answers at once
\* with no outcome, without a credential or publish call, leaves lastPublishAt,
\* the CooldownRecords and the PostedRecords as they are and notifies nobody;
\* at most it appends one Schedule.
C11_ThrottledFrame ==
    [][\A s \in SessIds :
         StartsThrottled(s) =>
           /\ sess'[s].pc = "done"
           /\ sess'[s].results = << >>
           /\ sess'[s].published = {}
           /\ extSeq' = extSeq
           /\ lastAdAt' = lastAdAt
           /\ cooldowns' = cooldowns
           /\ posted' = posted
           /\ notes' = << >>
           /\ \/ schedules' = schedules
              \/ /\ Len(schedules') = Len(schedules) + 1
                 /\ SubSeq(schedules', 1, Len(schedules)) = schedules]_vars

\* a throttled session of a tenant that has posted, answered with its Schedule
C11_Witness ==
    \E s \in SessIds :
        /\ sess[s].pc = "done"
        /\ sess[s].status = "throttled"
        /\ sess[s].scheduled # 0
        /\ posted[sess[s].serverKey] # << >>
        /\ notes = << >>

\* C12: when a session is throttled and autoScheduleIfThrottled is true,
\* exactly one Schedule is appended, for that tenant, with reason throttled
\* and whenMs = lastPublishAt + 24 h, later than the request; when the flag is
\* false the schedule list is unchanged.
C12_AutoSchedule ==
    [][\A s \in SessIds, t \in AllKeys, dryRun \in BOOLEAN, auto \in BOOLEAN :
         (StartsThrottled(s) /\ AdvertiseStart(s, t, dryRun, auto, sess'[s].caller)) =>
           IF auto
           THEN /\ Len(schedules') = Len(schedules) + 1
                /\ SubSeq(schedules', 1, Len(schedules)) = schedules
                /\ LET new == schedules'[Len(schedules')]
                   IN  /\ new.serverKey = t
                       /\ new.reason = "throttled"
                       /\ new.whenMs = lastAdAt[t] + 86400000
                       /\ new.whenMs > now
                       /\ new.id \notin Ids(schedules)
           ELSE schedules' = schedules]_vars

\* the Schedule of a throttled session, due when the tenant's window ends
C12_Witness ==
    \E s \in SessIds :
        /\ sess[s].pc = "done"
        /\ sess[s].status = "throttled"
        /\ Len(schedules) = 1
        /\ schedules[1].id = sess[s].scheduled
        /\ schedules[1].serverKey = sess[s].serverKey
        /\ schedules[1].reason = "throttled"
        /\ schedules[1].whenMs = lastAdAt[sess[s].serverKey] + 86400000
        /\ schedules[1].whenMs > now

\* the content of a target as it is validated, and the rule of the validation
Merged(t, entry) == withServerDefaults(t, entry.post)
HasInvite(body) == \E i \in 1 .. Len(body) : body[i] \in InvitePattern
IsInvalid(post, rules) ==
    LET required == rules.requirePermanentInvite # "false"
    IN  \/ post.title = ""
        \/ post.type = "self" /\ (post.body = << >> \/ (required /\ ~HasInvite(post.body)))
        \/ post.type = "link" /\ (post.url = "" \/ (required /\ post.url \notin InvitePattern))
        \/ post.type \notin {"self", "link"}

\* C13: a dry-run session that is not throttled answers without a credential
\* or publish call and leaves lastPublishAt, the CooldownRecords, the
\* PostedRecords and the schedule list as they are; every target that passes
\* the cooldown gate and the validation, and no other, gets dry_run_ok.
C13_DryRunFrame ==
    [][\A s \in SessIds :
         (Starts(s) /\ sess'[s].dryRun /\ sess'[s].status # "throttled") =>
           LET t == sess'[s].serverKey
           IN  /\ sess'[s].pc = "done"
               /\ sess'[s].published = {}
               /\ extSeq' = extSeq
               /\ lastAdAt' = lastAdAt
               /\ cooldowns' = cooldowns
               /\ posted' = posted
               /\ schedules' = schedules
               /\ sess'[s].status = "ok" =>
                    /\ Len(sess'[s].results) = Len(Subs(t))
                    /\ \A i \in 1 .. Len(Subs(t)) :
                         LET entry == Subs(t)[i]
                             passes == now - cooldowns[t][EntryKey(entry)]
                                         >= EntryDays(entry) * 86400000
                         IN  (sess'[s].results[i].status = "dry_run_ok") <=>
                                (passes /\ ~IsInvalid(Merged(t, entry), entry.rules))]_vars

\* a dry run of a tenant that has posted: the posted target is in cooldown,
\* the keyed link target would be published
C13_Witness ==
    \E s \in SessIds :
        /\ sess[s].pc = "done"
        /\ sess[s].status = "ok"
        /\ sess[s].dryRun
        /\ sess[s].serverKey = "alpha"
        /\ sess[s].results[1].status = "skip_cooldown"
        /\ sess[s].results[2].status = "invalid"
        /\ sess[s].results[3].status = "dry_run_ok"
        /\ lastAdAt["alpha"] # 0

\* C14 (validation): a target that passes the cooldown gate gets the outcome
\* invalid iff its merged content has no title, or is a self post without body
\* or (invite required) without an invite in the body, or is a link post
\* without url or (invite required) with a url that is no invite, or is of any
\* other kind; an invalid target is not published, its CooldownRecord entry
\* stays as it is, and the session goes on to the targets after it.
C14_Validation ==
    [][\A s \in SessIds :
         \A i \in (Len(sess[s].results) + 1) .. Len(sess'[s].results) :
            LET t == sess'[s].serverKey
                entry == Subs(t)[i]
                r == sess'[s].results[i]
            IN  /\ r.status # "skip_cooldown" =>
                     ((r.status = "invalid") <=> IsInvalid(Merged(t, entry), entry.rules))
                /\ r.status = "invalid" =>
                     /\ i \notin sess'[s].published
                     /\ cooldowns'[t][EntryKey(entry)] = cooldowns[t][EntryKey(entry)]
                     /\ sess'[s].idx > i]_vars

\* a finished non-dry-run session all of whose five targets are invalid, each
\* for another reason
C14_Witness ==
    \E s \in SessIds :
        /\ sess[s].pc = "done"
        /\ sess[s].status = "ok"
        /\ ~sess[s].dryRun
        /\ sess[s].serverKey = "gamma"
        /\ Len(sess[s].results) = 5
        /\ \A i \in 1 .. 5 : sess[s].results[i].status = "invalid"
        /\ sess[s].results[1].errors = <<"title is required">>
        /\ sess[s].results[5].errors = <<"unsupported post type">>

\* One step of a monitor tick runs from the record it stood at (or from the
\* start) to the record whose lookup it awaits next (or to the end); the
\* records in between are passed without a remote call.
From(m) == IF mon[m].pc = "idle" THEN <<1, 0>> ELSE <<mon[m].si, mon[m].ri>>
To(m) == IF mon'[m].pc = "fetch" THEN <<mon'[m].si, mon'[m].ri>> ELSE <<Len(servers) + 1, 0>>
Before(a, b) == a[1] < b[1] \/ (a[1] = b[1] /\ a[2] < b[2])
Passed(m) ==
    {p \in (1 .. Len(servers)) \X (1 .. 4) :
        /\ p[2] <= Len(posted[servers[p[1]]])
        /\ Before(From(m), p)
        /\ Before(p, To(m))}
\* the record at a place before and after the step, and the tick's time there
Old(m, p) ==
    IF mon[m].pc = "fetch" /\ mon[m].si = p[1] THEN mon[m].list[p[2]]
    ELSE posted[servers[p[1]]][p[2]]
New(m, p) ==
    IF mon'[m].pc = "fetch" /\ mon'[m].si = p[1] THEN mon'[m].list[p[2]]
    ELSE posted'[servers[p[1]]][p[2]]
NowSec(m, p) ==
    IF mon[m].pc = "fetch" /\ mon[m].si = p[1] THEN mon[m].now ELSE now \div 1000
TooOld(rec, nowSec) == rec.createdUtc # 0 /\ nowSec - rec.createdUtc > 7 * 86400

\* C15: in a monitor tick, every live record older than the 7-day TTL
\* becomes expired, also when it has no id, and every live record within the
\* TTL without id becomes unknown, both without a remote lookup: a lookup is
\* awaited only for a live record within the TTL that has an id.
C15_LocalChecks ==
    [][\A m \in MonIds : (MonitorStart(m) \/ \E o \in Lookups : MonitorFetched(m, o)) =>
          /\ \A p \in Passed(m) :
                Old(m, p).status = "live" =>
                   /\ TooOld(Old(m, p), NowSec(m, p)) =>
                         New(m, p) = [Old(m, p) EXCEPT !.status = "expired"]
                   /\ (~TooOld(Old(m, p), NowSec(m, p)) /\ Old(m, p).id = 0) =>
                         New(m, p) = [Old(m, p) EXCEPT !.status = "unknown"]
          /\ mon'[m].pc = "fetch" =>
                LET rec == mon'[m].list[mon'[m].ri]
                IN  /\ rec.status = "live"
                    /\ rec.id # 0
                    /\ ~TooOld(rec, mon'[m].now)]_vars

\* after a tick, an id-less record older than the TTL is expired and an
\* id-less record without age is unknown
C15_Witness ==
    /\ \A m \in MonIds : mon[m].pc = "idle"
    /\ Len(posted[PostedTenant]) = 2
    /\ posted[PostedTenant][1].status = "expired"
    /\ posted[PostedTenant][1].id = 0
    /\ posted[PostedTenant][2].status = "unknown"

\* the category the platform reports, as the monitor reads it
Reported(o) ==
    IF o \in {"throw", "null"} THEN ""
    ELSE IF o \in {"deleted", "Deleted"} THEN "deleted"
    ELSE IF o \in {"moderator", "Moderator"} THEN "moderator"
    ELSE o
Place(m) == <<mon[m].si, mon[m].ri>>

\* C16: when a lookup answers, the live record becomes removed iff the
\* platform reports a removal category other than the author's own deletion;
\* then it carries removal{category, checkedUtc} with that category and the
\* tick's time and exactly one cryer.post.removed notification is sent;
\* otherwise (author's deletion, no category) the record stays as it is and
\* no notification is sent.
C16_RemoteCheck ==
    [][\A m \in MonIds : \A o \in Lookups \ {"throw", "null"} :
          MonitorFetched(m, o) =>
             LET old == mon[m].list[mon[m].ri]
                 new == New(m, Place(m))
             IN  /\ old.status = "live"
                 /\ (new.status = "removed") <=> (Reported(o) \notin {"", "deleted"})
                 /\ IF Reported(o) \notin {"", "deleted"}
                    THEN /\ new = [old EXCEPT !.status = "removed",
                                              !.removal = [category |-> Reported(o),
                                                           checkedUtc |-> mon[m].now]]
                         /\ Len(notes') = 1
                         /\ notes'[1].type = "cryer.post.removed"
                         /\ notes'[1].category = Reported(o)
                         /\ notes'[1].id = old.id
                         /\ notes'[1].serverKey = servers[mon[m].si]
                    ELSE /\ new = old
                         /\ notes' = << >>]_vars

\* a record was removed by a moderator, and the lookup of another record
\* reported the author's deletion: that record is live
C16_Witness ==
    \E m \in MonIds, t \in TenantKeys :
        /\ mon[m].thing \in {"deleted", "Deleted"}
        /\ Len(posted[t]) = 2
        /\ posted[t][1].status = "removed"
        /\ posted[t][1].removal.category = "moderator"
        /\ posted[t][2].status = "live"
        /\ mon[m].pc = "idle"

\* C17: when the lookup for a live record returns no item or throws, the
\* record stays live and unchanged and nothing is notified; the tick goes on:
\* it awaits the lookup of the next live record that needs one, and every
\* record it passed on the way is no longer live; the record is live in the
\* list the next tick reads.
C17_TransientFailure ==
    [][\A m \in MonIds : \A o \in {"throw", "null"} :
          MonitorFetched(m, o) =>
             LET old == mon[m].list[mon[m].ri]
             IN  /\ old.status = "live"
                 /\ New(m, Place(m)) = old
                 /\ notes' = << >>
                 /\ \A p \in Passed(m) : New(m, p).status # "live"
                 /\ mon'[m].pc = "idle" =>
                       posted'[servers[mon[m].si]][mon[m].ri] = old]_vars

\* the first lookup of a tick gave nothing, and the tick awaits the lookup of
\* the tenant's second record
C17_Witness ==
    \E m \in MonIds :
        /\ mon[m].thing \in {"throw", "null"}
        /\ mon[m].pc = "fetch"
        /\ mon[m].ri = 2
        /\ mon[m].list[1].status = "live"

\* C18: PostedRecords are never deleted: in every step, of a session or of
\* a monitor tick, every record of a tenant's posted.json is still in the
\* list afterwards, at its place.
C18_NeverDeleted ==
    [][\A t \in AllKeys :
         /\ Len(posted'[t]) >= Len(posted[t])
         /\ \A i \in 1 .. Len(posted[t]) : posted'[t][i].id = posted[t][i].id]_vars

\* C19: the attemptCount of a Schedule id in schedules.json never decreases,
\* whatever the ticks do, also when they overlap.
C19_AttemptCountMonotone ==
    [][\A id \in Ids(schedules) \cap Ids(schedules') :
         EntryOf(schedules', id).attemptCount >= EntryOf(schedules, id).attemptCount]_vars

\* C20: a Schedule id is not processed to successful completion twice: no two
\* ticks hold the answer of a successfully completed session for the same
\* Schedule id.
C20_AtMostOnce ==
    \A k1 \in TickIds, k2 \in TickIds :
        (/\ k1 # k2
         /\ tick[k1].pc = "wait"
         /\ tick[k2].pc = "wait"
         /\ Triggered(k1).id = Triggered(k2).id)
        => ~ \E s1 \in SessIds, s2 \in SessIds :
                /\ sess[s1].caller = k1
                /\ sess[s2].caller = k2
                /\ sess[s1].pc = "done" /\ sess[s1].status = "ok"
                /\ sess[s2].pc = "done" /\ sess[s2].status = "ok"

\* C21: a tick never creates a Schedule: in every step of a tick, or of the
\* session a tick has triggered, the Schedule ids after the step are among
\* those before it; the triggered session is no dry run, and when it is
\* throttled the schedule list stays as it is.
C21_TickCreatesNoSchedule ==
    [][/\ (tick' # tick \/ sess' # sess) => Ids(schedules') \subseteq Ids(schedules)
       /\ \A s \in SessIds :
            (Starts(s) /\ sess'[s].caller \in TickIds) =>
               /\ ~sess'[s].dryRun
               /\ sess'[s].status = "throttled" => schedules' = schedules]_vars

\* the session a tick triggered was throttled, and the list holds no Schedule
\* but those of the schedule requests
C21_Witness ==
    \E s \in SessIds :
        /\ sess[s].caller \in TickIds
        /\ sess[s].pc = "done"
        /\ sess[s].status = "throttled"
        /\ lastAdAt[sess[s].serverKey] # 0
        /\ schedules # << >>
        /\ \A i \in 1 .. Len(schedules) : schedules[i].reason = "manual"

\* C22: the Schedule a tick has triggered leaves the list only when the
\* triggered session ran (status ok); when the session is throttled the
\* Schedule is still in the list after the answer.
C22_ThrottledKept ==
    [][\A k \in TickIds : \A s \in SessIds :
         (/\ tick[k].pc = "wait"
          /\ tick'[k] # tick[k]
          /\ sess[s].caller = k
          /\ sess[s].pc = "done"
          /\ Triggered(k).id \in Ids(schedules)) =>
            /\ Triggered(k).id \notin Ids(schedules') => sess[s].status = "ok"
            /\ sess[s].status = "throttled" => Triggered(k).id \in Ids(schedules')]_vars

\* C23: an entry whose whenMs is later than the tick's now is left untouched
\* by the tick: it is not triggered, and it is in the list with the same fields
\* after every step of the tick, whatever happens to the due entries.
C23_NotDueUntouched ==
    [][\A k \in TickIds :
         /\ tick[k].pc # "idle" =>
              \A i \in 1 .. Len(schedules) :
                 schedules[i].whenMs > tick[k].now =>
                    \E j \in 1 .. Len(schedules') : schedules'[j] = schedules[i]
         /\ Triggers(k) => tick'[k].list[tick'[k].i].whenMs <= tick'[k].now]_vars

\* a tick has postponed a due entry and awaits no further trigger, and an entry
\* that was not due at the tick's time is as it was created
C23_Witness ==
    \E i \in 1 .. Len(schedules), j \in 1 .. Len(schedules) :
        /\ schedules[i].attemptCount = 1
        /\ schedules[i].lastAttemptMs = now
        /\ schedules[j].whenMs > now
        /\ schedules[j].whenMs < now + 300000
        /\ schedules[j].attemptCount = 0
        /\ \A k \in TickIds : tick[k].pc = "idle"

\* C24: a non-dry-run session asks for the credential before it processes a
\* target; when the credential cannot be had the session ends there: no
\* target has an outcome, nothing is published, lastPublishAt, the
\* CooldownRecords, the PostedRecords and the schedule list are unchanged,
\* no summary is sent, and the result is not status ok (a tick that triggered
\* the session sees a failure).
C24_MissingCredential ==
    [][\A s \in SessIds :
         /\ (Starts(s) /\ ~sess'[s].dryRun
               /\ sess'[s].status \notin {"throttled", "not_found"}) =>
               /\ sess'[s].pc = "token"
               /\ sess'[s].results = << >>
         /\ AdvertiseToken(s, FALSE) =>
               /\ sess'[s].pc = "done"
               /\ sess'[s].status \notin {"ok", "throttled"}
               /\ sess'[s].results = << >>
               /\ sess'[s].published = {}
               /\ extSeq' = extSeq
               /\ lastAdAt' = lastAdAt
               /\ cooldowns' = cooldowns
               /\ posted' = posted
               /\ schedules' = schedules
               /\ notes' = << >>]_vars

\* a session of a tenant with targets has ended on the credential, and
\* nothing is recorded for the tenant
C24_Witness ==
    \E s \in SessIds :
        /\ sess[s].pc = "done"
        /\ sess[s].status = "error"
        /\ sess[s].serverKey = "alpha"
        /\ sess[s].results = << >>
        /\ lastAdAt["alpha"] = 0
        /\ posted["alpha"] = << >>

\* C25: a session for a tenant that does not exist fails with an error and
\* creates or changes no state, and it is not re-attempted: a tick does not
\* trigger a Schedule again whose trigger was answered "not found".
C25_ConfigErrorNotRetried ==
    [][/\ \A s \in SessIds :
            (Starts(s) /\ sess'[s].serverKey \notin dirs) =>
               /\ sess'[s].pc = "done"
               /\ sess'[s].status = "not_found"
               /\ sess'[s].results = << >>
               /\ dirs' = dirs
               /\ lastAdAt' = lastAdAt
               /\ cooldowns' = cooldowns
               /\ posted' = posted
               /\ schedules' = schedules
       /\ \A k \in TickIds :
            Triggers(k) => tick'[k].list[tick'[k].i].lastError # "status 404"]_vars

\* C26: after a tenant is removed it is gone from the tenant list, its
\* directory with target list, CooldownRecord, PostedRecords and config is
\* gone, and no Schedule with its key is left in the schedule list.
C26_TenantRemoval ==
    [][\A t \in TenantKeys :
         (t \in dirs /\ t \notin dirs') =>
            /\ \A i \in 1 .. Len(servers') : servers'[i] # t
            /\ lastAdAt'[t] = 0
            /\ \A key \in DOMAIN cooldowns'[t] : cooldowns'[t][key] = 0
            /\ posted'[t] = << >>
            /\ \A i \in 1 .. Len(schedules') : schedules'[i].serverKey # t]_vars


\* C27 (best-effort summary): whatever the end-of-session notification meets
\* (no URL configured, accepted, refused, a throwing fetch), the finished
\* session answers { ok: true, results } with the same results, the caller
\* sees the same outcome, and the step that delivers the answer leaves
\* lastAdAt, cooldowns and posted alone and changes the schedule list only by
\* the removal a tick makes after an ok answer.
C27_BestEffort ==
    [][\A s \in SessIds :
          (sess[s].pc = "done" /\ sess[s].status = "ok") =>
              /\ \A delivery \in Deliveries :
                    /\ SessionAnswer(sess[s], delivery) =
                           [ok |-> TRUE, results |-> sess[s].results]
                    /\ ResponseOutcome(sess[s], delivery) = "ok"
              /\ sess'[s].pc = "idle" =>
                    /\ UNCHANGED <<lastAdAt, cooldowns, posted>>
                    /\ sess[s].caller = "api" => UNCHANGED schedules
                    /\ sess[s].caller \in TickIds =>
                          LET t == tick[sess[s].caller]
                          IN  schedules' = removeSchedule(schedules, t.list[t.i].id)]_vars

\* a tick's session has published and waits to answer
C27_Witness ==
    \E s \in SessIds :
        /\ sess[s].pc = "done"
        /\ sess[s].status = "ok"
        /\ sess[s].caller \in TickIds
        /\ sess[s].postedCount > 0


\* the step in which the session of slot s ends with status ok
Completes(s) == sess[s].pc # "done" /\ sess'[s].pc = "done" /\ sess'[s].status = "ok"

\* the session-completed summaries among the notifications of a step
Summaries(list) == SelectSeq(list, LAMBDA n : n.type = "cryer.session.completed")

\* C28 (session summary): the step in which a session ends with status ok
\* hands exactly one session-completed summary to notifySquire, with one
\* result per target behind it; its counts give, for every status, the number
\* of results with that status (posted included) and its details are the
\* results that are not posted, in order. No other step hands over a summary;
\* a throttled session hands over none.
C28_SessionSummary ==
    [][/\ \A s \in SessIds :
             Completes(s) =>
                 LET st == sess'[s]
                     n == notes'[1]
                 IN  /\ Len(Summaries(notes')) = 1
                     /\ Len(notes') = 1
                     /\ Len(st.results) = Len(Subs(st.serverKey))
                     /\ n.serverKey = st.serverKey
                     /\ n.dryRun = st.dryRun
                     /\ \A status \in Outcomes :
                           n.counts[status] =
                               Cardinality({i \in 1 .. Len(st.results) :
                                               st.results[i].status = status})
                     /\ \A i \in 1 .. Len(n.details) : n.details[i].status # "posted"
                     /\ n.details = SelectSeq(st.results, LAMBDA r : r.status # "posted")
       /\ \/ notes' = << >>
          \/ \E s \in SessIds : Completes(s)
          \/ Summaries(notes') = << >>]_vars

\* a session has ended with posted, invalid and failed targets, and its
\* summary counts them all and lists all but the posted one
C28_Witness ==
    \E s \in SessIds :
        /\ sess[s].pc = "done"
        /\ sess[s].status = "ok"
        /\ Len(notes) = 1
        /\ notes[1].type = "cryer.session.completed"
        /\ notes[1].counts["posted"] = 1
        /\ notes[1].counts["invalid"] = 1
        /\ notes[1].counts["error"] >= 1
        /\ Len(notes[1].details) = Len(sess[s].results) - 1


\* the request whose body holds serverKey, at and afterMs is handled in this step
Requested(serverKey, at, afterMs) ==
    \/ ScheduleAdvertise(serverKey, at, afterMs)
    \/ ScheduleRefused(serverKey, at, afterMs)

\* C29 (schedule creation endpoint): a request with a serverKey and a finite
\* afterMs or at is answered ok and appends exactly one Schedule with that
\* serverKey, reason manual, no attempt counted, and whenMs = now + afterMs
\* (afterMs first) or at; a request without serverKey, or with neither afterMs
\* nor at a finite number, is answered with an error and leaves the schedule
\* list as it was.
C29_ScheduleEndpoint ==
    [][\A serverKey \in RequestKeys, at \in RequestAts, afterMs \in RequestAfters :
          (schedSeq < MaxManual /\ Requested(serverKey, at, afterMs)) =>
              IF serverKey # NoKey /\ (afterMs.kind = "num" \/ at.kind = "num")
              THEN /\ ScheduleAnswer(serverKey, at, afterMs) = "ok"
                   /\ Len(schedules') = Len(schedules) + 1
                   /\ SubSeq(schedules', 1, Len(schedules)) = schedules
                   /\ LET e == schedules'[Len(schedules')]
                      IN  /\ e.serverKey = serverKey
                          /\ e.reason = "manual"
                          /\ e.attemptCount = 0
                          /\ e.whenMs = IF afterMs.kind = "num"
                                        THEN now + afterMs.val ELSE at.val
              ELSE /\ ScheduleAnswer(serverKey, at, afterMs) # "ok"
                   /\ schedules' = schedules]_vars

\* the same for requests whose at is a number or absent: the part of C29
\* that the handler keeps
C29_NumberOrAbsent ==
    [][\A serverKey \in RequestKeys, at \in ScheduleAts, afterMs \in RequestAfters :
          (schedSeq < MaxManual /\ Requested(serverKey, at, afterMs)) =>
              IF serverKey # NoKey /\ (afterMs.kind = "num" \/ at.kind = "num")
              THEN /\ ScheduleAnswer(serverKey, at, afterMs) = "ok"
                   /\ Len(schedules') = Len(schedules) + 1
                   /\ schedules'[Len(schedules')].whenMs =
                          IF afterMs.kind = "num" THEN now + afterMs.val ELSE at.val
              ELSE /\ ScheduleAnswer(serverKey, at, afterMs) # "ok"
                   /\ schedules' = schedules]_vars


\* the entries of list from position from on that are due at nowMs
DueFrom(list, from, nowMs) ==
    {i \in from .. Len(list) : list[i].whenMs <= nowMs}

\* C30 (Schedules survive restarts): a stop and restart of the process leaves
\* the schedule list as it was last written, every entry with its whenMs and
\* attemptCount, and leaves no tick running; an entry leaves the list only
\* when the runner's trigger for it was answered ok; and a tick reads the
\* whole list and triggers every entry of it that is due at the tick's now,
\* in order: the first due entry when it starts, the next due entry after
\* each answer, and none is left when it ends.
C30_SurvivesRestart ==
    [][/\ Restart =>
             /\ schedules' = schedules
             /\ \A k \in TickIds : tick'[k].pc = "idle"
       /\ \A i \in 1 .. Len(schedules) :
             (\A j \in 1 .. Len(schedules') : schedules'[j].id # schedules[i].id) =>
                 \E k \in TickIds, s \in SessIds :
                     /\ tick[k].pc = "wait"
                     /\ tick[k].list[tick[k].i].id = schedules[i].id
                     /\ sess[s].pc = "done"
                     /\ sess[s].caller = k
                     /\ sess[s].status \in {"ok", "throttled"}
       /\ \A k \in TickIds :
             /\ (tick[k].pc = "idle" /\ tick'[k].pc # "idle") =>
                   /\ tick'[k].list = schedules
                   /\ tick'[k].now = now
                   /\ tick'[k].pc = "fetch"
                   /\ tick'[k].i \in DueFrom(schedules, 1, now)
                   /\ DueFrom(schedules, 1, now) \cap (1 .. tick'[k].i - 1) = {}
             /\ (NoHandler /\ DueFrom(schedules, 1, now) # {} /\ TickStart(k, "runner")) =>
                   tick'[k].pc = "fetch"
             /\ (tick[k].pc = "wait" /\ tick'[k].pc = "fetch") =>
                   /\ tick'[k].i \in DueFrom(tick[k].list, tick[k].i + 1, tick[k].now)
                   /\ DueFrom(tick[k].list, tick[k].i + 1, tick[k].now)
                          \cap (1 .. tick'[k].i - 1) = {}
             /\ (tick[k].pc # "idle" /\ tick'[k].pc = "idle" /\ ~Restart) =>
                   DueFrom(tick[k].list, tick[k].i + 1, tick[k].now) = {}]_vars


\* a stop has cut the session of the only Schedule after Reddit took its
\* post; the Schedule is still listed as it was and the tick after the
\* restart sends its trigger again
C30_Witness ==
    /\ extSeq > 0
    /\ schedSeq = 1
    /\ \A s \in SessIds : sess[s].pc = "idle"
    /\ \E i \in 1 .. Len(schedules) : schedules[i].id = 1 /\ schedules[i].attemptCount = 0
    /\ \E k \in TickIds :
          /\ tick[k].pc = "fetch"
          /\ tick[k].list[tick[k].i].id = 1


\* C31 (target keys): in a list built from the empty list by upsertSubreddit
\* and deleteSubreddit no two entries have the same key; an upsert of a key
\* that is in the list puts the new entry at the place of the old one and
\* leaves every other entry where and as it was, an upsert of a new key
\* appends, and a delete removes the entry of that key and keeps the order of
\* the others.
C31_UniqueKeys ==
    [][/\ \A i, j \in 1 .. Len(subs') :
             EntryKey(subs'[i]) = EntryKey(subs'[j]) => i = j
       /\ Len(subs') = Len(subs) =>
             \A i, j \in 1 .. Len(subs) :
                 (subs'[i] # subs[i] /\ subs'[j] # subs[j]) =>
                     i = j /\ EntryKey(subs'[i]) = EntryKey(subs[i])
       /\ Len(subs') > Len(subs) =>
             /\ Len(subs') = Len(subs) + 1
             /\ SubSeq(subs', 1, Len(subs)) = subs
       /\ Len(subs') < Len(subs) =>
             \E key \in TargetKeys :
                 subs' = SelectSeq(subs, LAMBDA e : EntryKey(e) # key)]_vars

\* three targets with three keys, two of them of the same subreddit, the
\* second one keyed r1 with the content of a later upsert
C31_Witness ==
    /\ Len(subs) = 3
    /\ subs[1] = [subreddit |-> "r2", key |-> "", title |-> "a"]
    /\ subs[2] = [subreddit |-> "r2", key |-> "r1", title |-> "b"]
    /\ subs[3].key = "k2"


\* C32 (Schedule liveness): while ticks keep occurring and time passes, and
\* from some point on every trigger is answered ok, every Schedule of the
\* list is removed in the end, whatever the instants of the ticks and however
\* many of its triggers failed before.
C32_EventuallyRemoved ==
    \A id \in 1 .. LiveMaxSchedules + 1 :
        (id \in Ids(schedules)) ~> (id \notin Ids(schedules))

\* a Schedule whose trigger failed waits for its retry
C32_Witness ==
    \E i \in 1 .. Len(schedules) :
        /\ schedules[i].attemptCount > 0
        /\ schedules[i].whenMs > now


\* C33 (throttle window under concurrency): two sessions of one tenant that
\* are no dry runs and started less than 24 h apart do not both publish.  As
\* long as less than 24 h have passed since the first request, any two
\* sessions started less than 24 h apart: so until then no two handlers of
\* one tenant hold a posted outcome each.
C33_ThrottleConcurrent ==
    \A s1 \in SessIds, s2 \in SessIds :
        (/\ s1 # s2
         /\ sess[s1].pc # "idle"
         /\ sess[s2].pc # "idle"
         /\ sess[s1].serverKey = sess[s2].serverKey
         /\ ~sess[s1].dryRun
         /\ ~sess[s2].dryRun
         /\ now < Epoch + 86400000)
        => ~(sess[s1].postedCount > 0 /\ sess[s2].postedCount > 0)

\* C34 (cooldown under concurrency): two PostedRecords of a tenant for the
\* same subreddit are at least cadenceDays x 24 h apart, and no step writes
\* an older value over an entry of a CooldownRecord.
C34_CooldownConcurrent ==
    [][/\ \A t \in TenantKeys : \A i, j \in 1 .. Len(posted'[t]) :
             (i < j /\ posted'[t][i].subreddit = posted'[t][j].subreddit) =>
                 \E e \in {Subs(t)[n] : n \in 1 .. Len(Subs(t))} :
                     /\ e.subreddit = posted'[t][i].subreddit
                     /\ posted'[t][j].createdUtc - posted'[t][i].createdUtc
                            >= EntryDays(e) * 86400
       /\ \A t \in TenantKeys : \A key \in TargetKeys :
             cooldowns'[t][key] >= cooldowns[t][key]]_vars

\* the second part of C34 alone
C34_NeverOlder ==
    [][\A t \in TenantKeys : \A key \in TargetKeys :
          cooldowns'[t][key] >= cooldowns[t][key]]_vars


\* C35 (several due Schedules of one tenant in one tick): of the sessions
\* that one tick triggers one after another for a tenant, at most one
\* publishes.  While a tick holds every Schedule ever created, each still
\* without an attempt, no session ran before this tick: then every post made
\* so far is a post of the session that the tick waits for.
C35_OnePublishingSession ==
    \A k \in TickIds, s \in SessIds :
        (/\ tick[k].pc = "wait"
         /\ sess[s].pc # "idle"
         /\ sess[s].caller = k
         /\ Len(tick[k].list) = schedSeq
         /\ \A i \in 1 .. Len(tick[k].list) :
               /\ tick[k].list[i].attemptCount = 0
               /\ tick[k].list[i].serverKey = sess[s].serverKey)
        => (sess[s].published = {} \/ extSeq = Cardinality(sess[s].published))


\* C36 (one removal notification per PostedRecord): a monitor tick emits the
\* removal notification of a record only if no tick has emitted one for that
\* record before.  A tick that holds the record as removed while posted.json
\* still holds it as live is a tick that has stamped and notified it.
NotifiedBy(m, key, ri) ==
    /\ mon[m].pc # "idle"
    /\ mon[m].servers[mon[m].si] = key
    /\ ri <= Len(mon[m].list)
    /\ ri <= Len(posted[key])
    /\ mon[m].list[ri].status = "removed"
    /\ posted[key][ri].status = "live"
EmitsRemoval(m) ==
    /\ mon[m].pc = "fetch"
    /\ mon'[m] # mon[m]
    /\ notes' # << >>
    /\ notes'[1].type = "cryer.post.removed"
C36_NotifiedOnce ==
    [][\A m \in MonSlots :
          EmitsRemoval(m) =>
             \A other \in MonSlots \ {m} :
                 ~NotifiedBy(other, mon[m].servers[mon[m].si], mon[m].ri)]_vars


\* C37 (no Schedule update is lost in one process): the step in which a tick
\* settles the entry it was processing removes that entry, or postpones it
\* with one more attempt, and leaves every other entry of schedules.json,
\* those added since the tick read the list included, as it was; every other
\* step keeps the entries of the list and at most appends one.
Settles(k) ==
    /\ tick[k].pc \in {"fetch", "wait"}
    /\ tick'[k] # tick[k]
    /\ ~(tick[k].pc = "fetch" /\ tick'[k].pc = "wait")
OwnEntryApplied(k, schedule) ==
    \/ schedule.id \notin Ids(schedules')
    \/ \E i \in 1 .. Len(schedules') :
          /\ schedules'[i].id = schedule.id
          /\ schedules'[i].attemptCount = schedule.attemptCount + 1
          /\ schedules'[i].whenMs = tick[k].now + DEFAULT_RETRY_DELAY_MS
          /\ schedules'[i].lastAttemptMs = tick[k].now
SettleKeepsOthers(k) ==
    LET schedule == tick[k].list[tick[k].i]
    IN  /\ removeSchedule(schedules', schedule.id) = removeSchedule(schedules, schedule.id)
        /\ OwnEntryApplied(k, schedule)
OnlyAppends ==
    /\ Len(schedules') >= Len(schedules)
    /\ SubSeq(schedules', 1, Len(schedules)) = schedules
C37_NoLostUpdate ==
    [][IF \E k \in TickIds : Settles(k)
       THEN \A k \in TickIds : Settles(k) => SettleKeepsOthers(k)
       ELSE OnlyAppends]_vars

\* C37 witness: a tick has settled its first entry and is at its second one
\* while schedules.json holds an entry that was added after the tick read the
\* list, and the settled entry is postponed.
C37_Witness ==
    \E k \in TickIds :
        /\ tick[k].pc = "fetch"
        /\ tick[k].i = 2
        /\ \E i \in 1 .. Len(schedules) :
              /\ schedules[i].id \notin Ids(tick[k].list)
              /\ schedules[i].attemptCount = 0
        /\ \E i \in 1 .. Len(schedules) :
              /\ schedules[i].id = tick[k].list[1].id
              /\ schedules[i].attemptCount = 1


\* C38 (the shared key guards the three POST routes): while no shared key is
\* configured, or the X-Cryer-Key the client sends differs from it, no
\* request registers a tenant, adds a Schedule or starts a session, and a
\* step changes nothing but the header the client sends: no durable state,
\* no publish, no notification.
Refused == http.SHARED_KEY = "" \/ http.header # http.SHARED_KEY
EndpointActs ==
    \/ \E s \in SessIds : sess[s].pc = "idle" /\ sess'[s].pc # "idle"
    \/ Len(schedules') > Len(schedules)
    \/ Len(servers') > Len(servers)
    \/ dirs' # dirs
C38_KeyRequired ==
    [][(Refused /\ NoHandler) =>
          /\ ~EndpointActs
          /\ UNCHANGED <<dirs, servers, lastAdAt, cooldowns, posted, schedules, extSeq>>
          /\ notes' = << >>]_vars

\* C38 witness: tenants, Schedules and posts exist, made by requests that
\* carried the key, and the client now sends a key that differs from the
\* configured one.
C38_Witness ==
    /\ http.SHARED_KEY = SharedKey
    /\ http.header = "wrong"
    /\ NoHandler
    /\ "ghost" \in dirs
    /\ schedSeq > 0
    /\ extSeq > 0

KeptIndex(list, id, n) ==
    CHOOSE i \in 1 .. Len(list) :
        /\ list[i].id # id
        /\ Cardinality({m \in 1 .. i : list[m].id # id}) = n
RemoveFrame(list, id) ==
    LET r == removeSchedule(list, id)
    IN  /\ Len(r) = Cardinality({m \in 1 .. Len(list) : list[m].id # id})
        /\ \A n \in 1 .. Len(r) : r[n] = list[KeptIndex(list, id, n)]
UpdateFrame(list, id) ==
    LET u == updateSchedule(list, id, now + 1, 1, now, "status 500")
    IN  /\ Len(u) = Len(list)
        /\ \A i \in 1 .. Len(list) : list[i].id # id => u[i] = list[i]
        /\ id \notin Ids(list) => u = list
        /\ \A i \in 1 .. Len(list) :
              list[i].id = id =>
                 /\ u[i].id = id
                 /\ u[i].serverKey = list[i].serverKey
                 /\ u[i].createdMs = list[i].createdMs
C40_OneEntryChanged ==
    [][/\ \A id \in 1 .. schedSeq + 1 :
             RemoveFrame(schedules, id) /\ UpdateFrame(schedules, id)
       /\ \A id \in 1 .. schedSeq :
             id \notin Ids(schedules) => id \notin Ids(schedules')]_vars

\* C40 witness: of three Schedules the first was postponed by updateSchedule
\* after a failed attempt, the second was removed by removeSchedule, and the
\* third is as it was added.
C40_Witness ==
    /\ schedSeq = 3
    /\ Len(schedules) = 2
    /\ schedules[1].id = 1
    /\ schedules[1].attemptCount = 1
    /\ schedules[2].id = 3
    /\ schedules[2].attemptCount = 0

=============================================================================
